---- MODULE Spec2Model ----
(***************************************************************************)
(* Verification model of the multi-tenant credential admission layer of    *)
(* google-calendar-mcp: the policy object (ConvexConfig), the fixed-window *)
(* rate limiter and the middleware gate in front of the credential routes. *)
(*                                                                         *)
(* Strings are sequences of character codes.  An optional value (a header  *)
(* that may be undefined) is a sequence of length 0 (undefined) or 1.      *)
(***************************************************************************)
EXTENDS Integers, Sequences, FiniteSets, TLC

\* ------------------------------------------------------------- bounds
\* character codes 1..MaxChar
MaxChar == 2
\* provided keys have at most MaxKeyLen characters
MaxKeyLen == 3
\* configured quotas range over 1..MaxLimit
MaxLimit == 3
\* a run makes at most MaxChecks rate-limit checks (the code has no cap)
MaxChecks == 5
\* the clock runs from 0 to MaxTicks * TickMs
MaxTicks == 3

\* the configured secret has at least MinApiKeyLen characters (validate()
\* asks for 32; the model scales the floor down with the alphabet so that
\* every key up to MaxKeyLen can be enumerated)
MinApiKeyLen == 2
\* in the scheduled store, entries are written and read during the first
\* MaxAccessTicks clock steps (the code has no such limit)
MaxAccessTicks == 1
\* the longest value of OAUTH_CALLBACK_PORT, in characters
MaxPortLen == 5

\* ------------------------------------------------------------- program constants
\* Math.ceil((resetTime - now) / 1000): milliseconds per second
MsPerSecond == 1000
\* the clock advances in steps of half a second
TickMs == MsPerSecond \div 2
\* const maxRequestSize = 10 * 1024 * 1024
maxRequestSize == 10 * 1024 * 1024

None == << >>
Some(v) == << v >>
IsSome(o) == Len(o) = 1
Val(o) == o[1]

\* JavaScript values that reach the token provider: a string, the number
\* twice / 2 (so that a non-integer is expressible), NaN and undefined
Str(s) == [ kind |-> "string", s |-> s, twice |-> 0 ]
Num2(n) == [ kind |-> "number", s |-> "", twice |-> n ]
Num(n) == Num2(2 * n)
NaN == [ kind |-> "NaN", s |-> "", twice |-> 0 ]
Undefined == [ kind |-> "undefined", s |-> "", twice |-> 0 ]
\* !v
Falsy(v) ==
  IF v.kind = "string" THEN v.s = ""
  ELSE IF v.kind = "number" THEN v.twice = 0
  ELSE TRUE
\* typeof v
TypeOf(v) == IF v.kind = "NaN" THEN "number" ELSE v.kind
\* v is a number with an integer value
IsInteger(v) == v.kind = "number" /\ v.twice % 2 = 0

Chars == 1..MaxChar
\* the 7-character substring 'Bearer ' of an Authorization header value, as
\* one code outside Chars
BearerTok == MaxChar + 1

RECURSIVE StringsOfLen(_, _)
StringsOfLen(S, n) ==
  IF n = 0 THEN { << >> }
  ELSE { Append(s, c) : s \in StringsOfLen(S, n - 1), c \in S }

StringsUpTo(S, n) == UNION { StringsOfLen(S, k) : k \in 0..n }

Ips == {"ip1", "ip2"}
Users == {"u1", "u2"}
\* the tenants whose tool requests are rate limited
RateUsers == {"u1"}
WindowChoices == {TickMs, MsPerSecond}
Origins == {"https://app", "https://evil"}

VARIABLES
  config,           \* ConvexConfig.config (the policy snapshot)
  now,              \* Date.now()
  rateLimitStores,  \* [byUser, byIp]: key -> optional RateLimitEntry
  rl,               \* outcome of the latest rate-limit check (headers + status)
  admitted,         \* history: per key, allowed checks in the entry's window
  rejected,         \* history: per key, the latest check if it was a rejection
  checks,           \* history: the number of rate-limit checks made so far
  tokenStore,       \* ConvexTokenProvider.tokenStore
  req,              \* the request being served
  res,              \* its response
  pc,               \* position of the request listener
  trace,            \* history: the stages and handlers that ran for req
  middlewarePromise, \* the promise the request listener awaits
  authPromise,      \* the promise handleTokenEndpoints awaits
  providedKey,      \* argument of validateApiKey
  keyResult,        \* its result
  storeOp,          \* the latest ConvexTokenProvider call and what it returned
  instance,         \* the singleton ConvexTokenProvider has been constructed
  cleanupInterval,  \* its timer handle: the instant the timer is due, if set
  rateCleanupTimer, \* the rate limiter's setInterval timer, likewise
  process,          \* "running", "stopping" (a signal is being handled), "exited"
  orphanIntervals,  \* the due times of the timers of the providers that
                    \* resetConvexTokenProvider has dropped, oldest first
  env,              \* process.env.OAUTH_CALLBACK_PORT, if set
  portResult        \* outcome of the latest getOAuthCallbackPort call, if any

vars == << config, now, rateLimitStores, rl, admitted, rejected, checks, tokenStore,
           req, res, pc, trace, middlewarePromise, authPromise,
           providedKey, keyResult, storeOp,
           instance, cleanupInterval, rateCleanupTimer, process,
           orphanIntervals, env, portResult >>

rateVars == << rateLimitStores, rl, admitted, rejected, checks >>
gateVars == << req, res, pc, trace, middlewarePromise, authPromise >>
keyVars == << providedKey, keyResult >>
storeVars == << storeOp >>
timerVars ==
  << instance, cleanupInterval, rateCleanupTimer, process, orphanIntervals >>

\* ------------------------------------------------------------- ConvexConfig
RECURSIVE BitXor(_, _)
BitXor(a, b) ==
  IF a = 0 THEN b
  ELSE IF b = 0 THEN a
  ELSE (((a % 2) + (b % 2)) % 2) + 2 * BitXor(a \div 2, b \div 2)

RECURSIVE BitOr(_, _)
BitOr(a, b) ==
  IF a = 0 THEN b
  ELSE IF b = 0 THEN a
  ELSE (IF (a % 2) + (b % 2) > 0 THEN 1 ELSE 0) + 2 * BitOr(a \div 2, b \div 2)

\* result |= providedKey.charCodeAt(i) ^ apiKey.charCodeAt(i), for i < length
RECURSIVE XorAccumulate(_, _, _)
XorAccumulate(p, k, n) ==
  IF n = 0 THEN 0
  ELSE BitOr(XorAccumulate(p, k, n - 1), BitXor(p[n], k[n]))

\* the accumulation with ^= in place of |=
RECURSIVE XorAccumulateXor(_, _, _)
XorAccumulateXor(p, k, n) ==
  IF n = 0 THEN 0
  ELSE BitXor(XorAccumulateXor(p, k, n - 1), BitXor(p[n], k[n]))

validateApiKeyXorFold(cfg, key) ==
  IF ~cfg.enabled THEN TRUE
  ELSE IF Len(key) # Len(cfg.apiKey) THEN FALSE
  ELSE XorAccumulateXor(key, cfg.apiKey, Len(key)) = 0

\* ConvexConfig.validateApiKey on a string
validateApiKey(cfg, key) ==
  IF ~cfg.enabled THEN TRUE
  ELSE IF Len(key) # Len(cfg.apiKey) THEN FALSE
  ELSE XorAccumulate(key, cfg.apiKey, Len(key)) = 0

\* ConvexConfig.validateApiKey on undefined: providedKey.length throws a
\* TypeError, unless the enabled test returned first
validateApiKeyThrows(cfg, optKey) == cfg.enabled /\ ~IsSome(optKey)

\* ConvexConfig.isOriginAllowed
isOriginAllowed(cfg, origin) ==
  IF ~cfg.enabled THEN TRUE
  ELSE IF cfg.allowedOrigins = {} THEN FALSE
  ELSE IF "*" \in cfg.allowedOrigins THEN TRUE
  ELSE origin \in cfg.allowedOrigins

\* the quotas and the window the policy may supply: the two quotas are
\* configured independently and differ in general
RateLimitConfigs ==
  { [ maxRequestsPerUser |-> MaxLimit + 1 - l,
      maxTokenInjectionsPerIp |-> l,
      windowMs |-> w ] : l \in 1..MaxLimit, w \in WindowChoices }

\* validate(): in enabled mode the secret has at least MinApiKeyLen
\* characters and the quotas and the window are positive
ValidConfig(cfg) ==
  cfg.enabled =>
    /\ Len(cfg.apiKey) >= MinApiKeyLen
    /\ cfg.rateLimit.maxRequestsPerUser > 0
    /\ cfg.rateLimit.maxTokenInjectionsPerIp > 0
    /\ cfg.rateLimit.windowMs > 0

\* ------------------------------------------------------------- rate limiter
RateKeys == ({"byIp"} \X Ips) \cup ({"byUser"} \X RateUsers)

NoOutcome ==
  [ checked |-> FALSE, key |-> << "none", "none" >>, at |-> 0, prior |-> None,
    count |-> 0, allowed |-> TRUE, status |-> 0, limit |-> 0,
    remaining |-> 0, reset |-> 0, retryAfter |-> None, waited |-> FALSE ]

\* Math.ceil(a / b) for b > 0
Ceil(a, b) == -((-a) \div b)

\* !entry || entry.resetTime < now
EntryExpired(entryOpt, t) ==
  IF IsSome(entryOpt) THEN Val(entryOpt).resetTime < t ELSE TRUE

\* entry.count > limit, off by one
LimitExceededLate(count, limit) == count > limit + 1

\* entry.count > limit
LimitExceeded(count, limit) == count > limit

\* String(limit - entry.count) with the operands swapped
RemainingSwapped(count, limit) == count - limit

\* X-RateLimit-Remaining on an allowed request: limit - entry.count
Remaining(count, limit) == limit - count

\* the entry the check works on: the stored one, or a new one when the
\* stored one is missing or expired; already incremented
TouchedEntry(entryOpt, t, windowMs) ==
  IF EntryExpired(entryOpt, t)
  THEN [ count |-> 1, resetTime |-> t + windowMs ]
  ELSE [ Val(entryOpt) EXCEPT !.count = @ + 1 ]

\* the body both rate-limit middlewares share, for one key of one store
RateLimitCheck(store, key, limit) ==
  LET old == rateLimitStores[store][key]
      entry == TouchedEntry(old, now, config.rateLimit.windowMs)
      over == LimitExceeded(entry.count, limit)
      retryAfter == Ceil(entry.resetTime - now, MsPerSecond)
      k == << store, key >>
      prev == rejected[k]
  IN  /\ checks < MaxChecks
      /\ checks' = checks + 1
      /\ rateLimitStores' =
           [ rateLimitStores EXCEPT ![store][key] = Some(entry) ]
      /\ rl' = [ checked |-> TRUE, key |-> k, at |-> now,
                 prior |-> old,
                 count |-> entry.count,
                 allowed |-> ~over,
                 status |-> IF over THEN 429 ELSE 0,
                 limit |-> limit,
                 remaining |-> IF over THEN 0
                               ELSE Remaining(entry.count, limit),
                 reset |-> entry.resetTime,
                 retryAfter |-> IF over THEN Some(retryAfter) ELSE None,
                 waited |-> IF IsSome(prev)
                            THEN now >= Val(prev).at
                                        + Val(prev).retryAfter * MsPerSecond
                            ELSE FALSE ]
      /\ admitted' =
           [ admitted EXCEPT ![k] =
               IF over THEN IF @.reset = entry.resetTime THEN @
                            ELSE [ reset |-> entry.resetTime, n |-> 0 ]
               ELSE IF @.reset = entry.resetTime
                    THEN [ @ EXCEPT !.n = @ + 1 ]
                    ELSE [ reset |-> entry.resetTime, n |-> 1 ] ]
      /\ rejected' =
           [ rejected EXCEPT ![k] =
               IF over THEN Some([ at |-> now, retryAfter |-> retryAfter ])
               ELSE None ]

\* the middleware letting every request through uncounted
rateLimitTokenInjectionOff(ip) ==
  /\ rl' = NoOutcome
  /\ UNCHANGED << rateLimitStores, admitted, rejected, checks >>

\* rateLimitTokenInjection(): the middleware for the client address ip;
\* it continues (calls next) iff rl'.allowed
rateLimitTokenInjection(ip) ==
  IF ~config.enabled
  THEN /\ rl' = NoOutcome
       /\ UNCHANGED << rateLimitStores, admitted, rejected, checks >>
  ELSE RateLimitCheck("byIp", ip, config.rateLimit.maxTokenInjectionsPerIp)

\* rateLimitToolRequests counting in the address collection
rateLimitToolRequestsByIp(userIdOpt) ==
  IF ~config.enabled \/ ~IsSome(userIdOpt)
  THEN /\ rl' = NoOutcome
       /\ UNCHANGED << rateLimitStores, admitted, rejected, checks >>
  ELSE RateLimitCheck("byIp", Val(userIdOpt),
                      config.rateLimit.maxRequestsPerUser)

\* rateLimitToolRequests(userId): userId may be undefined
rateLimitToolRequests(userIdOpt) ==
  IF ~config.enabled \/ ~IsSome(userIdOpt)
  THEN /\ rl' = NoOutcome
       /\ UNCHANGED << rateLimitStores, admitted, rejected, checks >>
  ELSE RateLimitCheck("byUser", Val(userIdOpt),
                      config.rateLimit.maxRequestsPerUser)

\* the sweep with <= in place of <
SweptStoreInclusive(m, t) ==
  [ k \in DOMAIN m |->
      IF IsSome(m[k]) THEN (IF Val(m[k]).resetTime <= t THEN None ELSE m[k])
      ELSE m[k] ]

\* the setInterval sweep: delete the entries with resetTime < now
SweptStore(m, t) ==
  [ k \in DOMAIN m |->
      IF IsSome(m[k]) THEN (IF Val(m[k]).resetTime < t THEN None ELSE m[k])
      ELSE m[k] ]

\* ------------------------------------------------------------- ConvexTokenProvider
\* const bufferMs = 5 * 60 * 1000
bufferMs == 5 * 60 * 1000
\* STALE_TOKEN_THRESHOLD_MS = 24 * 60 * 60 * 1000
STALE_TOKEN_THRESHOLD_MS == 24 * 60 * 60 * 1000

\* ConvexTokenProvider.validateTokens: the field whose check throws, or "ok"
validateTokens(tokens) ==
  IF Falsy(tokens.accessToken) \/ TypeOf(tokens.accessToken) # "string"
  THEN "accessToken"
  ELSE IF Falsy(tokens.refreshToken) \/ TypeOf(tokens.refreshToken) # "string"
  THEN "refreshToken"
  ELSE IF Falsy(tokens.expiresAt) \/ TypeOf(tokens.expiresAt) # "number"
  THEN "expiresAt"
  ELSE IF Falsy(tokens.scope) \/ TypeOf(tokens.scope) # "string"
  THEN "scope"
  ELSE IF Falsy(tokens.tokenType) \/ TypeOf(tokens.tokenType) # "string"
  THEN "tokenType"
  ELSE "ok"

\* ConvexTokenProvider.setUserTokens throws: the userId test or validateTokens
setUserTokensThrows(userId, tokens) ==
  \/ Falsy(userId)
  \/ TypeOf(userId) # "string"
  \/ validateTokens(tokens) # "ok"

\* setUserTokens with the write ahead of validateTokens
setUserTokensUnchecked(store, userId, tokens, t) ==
  IF Falsy(userId) \/ TypeOf(userId) # "string" THEN store
  ELSE [ store EXCEPT ![userId.s] =
           Some([ tokens |-> tokens, lastUpdated |-> t, lastAccessed |-> t ]) ]

\* setUserTokens updating an existing entry field by field, the refresh
\* token left as it was
setUserTokensMerge(store, userId, tokens, t) ==
  IF setUserTokensThrows(userId, tokens) THEN store
  ELSE [ store EXCEPT ![userId.s] =
           Some([ tokens |-> IF IsSome(@)
                             THEN [ tokens EXCEPT !.refreshToken =
                                      Val(store[userId.s]).tokens.refreshToken ]
                             ELSE tokens,
                  lastUpdated |-> t, lastAccessed |-> t ]) ]

\* setUserTokens leaving lastAccessed at the epoch
setUserTokensNoAccessStamp(store, userId, tokens, t) ==
  IF setUserTokensThrows(userId, tokens) THEN store
  ELSE [ store EXCEPT ![userId.s] =
           Some([ tokens |-> tokens, lastUpdated |-> t, lastAccessed |-> 0 ]) ]

\* ConvexTokenProvider.setUserTokens: the store after the call
setUserTokens(store, userId, tokens, t) ==
  IF setUserTokensThrows(userId, tokens) THEN store
  ELSE [ store EXCEPT ![userId.s] =
           Some([ tokens |-> tokens, lastUpdated |-> t, lastAccessed |-> t ]) ]

\* the entry getUserTokens finds, if any
EntryOf(store, u) == IF u \in DOMAIN store THEN store[u] ELSE None

\* getUserTokens without the lastAccessed update
getUserTokensNoTouch(store, u, t) == store

\* ConvexTokenProvider.getUserTokens: the store after the read
getUserTokens(store, u, t) ==
  IF u # "" /\ IsSome(EntryOf(store, u))
  THEN [ store EXCEPT ![u] = Some([ Val(@) EXCEPT !.lastAccessed = t ]) ]
  ELSE store

\* ConvexTokenProvider.getUserTokens: the value returned (None for null)
getUserTokensResult(store, u) ==
  IF u # "" /\ IsSome(EntryOf(store, u))
  THEN Some(Val(store[u]).tokens)
  ELSE None

\* removeUserTokens returning true whatever the map held
removeUserTokensResultAlways(store, u) == TRUE

\* ConvexTokenProvider.removeUserTokens: the value Map.delete returns
removeUserTokensResult(store, u) == IsSome(EntryOf(store, u))

\* ConvexTokenProvider.removeUserTokens: the store after the call
removeUserTokens(store, u) ==
  IF u \in DOMAIN store THEN [ store EXCEPT ![u] = None ] ELSE store

\* isTokenExpired with < in place of <=
isTokenExpiredStrict(tokens, t) ==
  IF tokens.expiresAt.kind = "number"
  THEN tokens.expiresAt.twice < 2 * (t + bufferMs)
  ELSE FALSE

\* ConvexTokenProvider.isTokenExpired: expiresAt <= now + bufferMs
isTokenExpired(tokens, t) ==
  IF tokens.expiresAt.kind = "number"
  THEN tokens.expiresAt.twice <= 2 * (t + bufferMs)
  ELSE FALSE

\* ConvexTokenProvider.getAllUserIds
getAllUserIds(store) == { u \in DOMAIN store : IsSome(store[u]) }

\* cleanupStaleTokens with <= in place of <
cleanupStaleTokensInclusive(store, t) ==
  [ u \in DOMAIN store |->
      IF IsSome(store[u])
      THEN (IF Val(store[u]).lastAccessed <= t - STALE_TOKEN_THRESHOLD_MS
            THEN None ELSE store[u])
      ELSE store[u] ]

\* cleanupStaleTokens with the threshold left at now
cleanupStaleTokensEager(store, t) ==
  [ u \in DOMAIN store |->
      IF IsSome(store[u])
      THEN (IF Val(store[u]).lastAccessed < t THEN None ELSE store[u])
      ELSE store[u] ]

\* ConvexTokenProvider.cleanupStaleTokens: the store after the sweep
cleanupStaleTokens(store, t) ==
  [ u \in DOMAIN store |->
      IF IsSome(store[u])
      THEN (IF Val(store[u]).lastAccessed < t - STALE_TOKEN_THRESHOLD_MS
            THEN None ELSE store[u])
      ELSE store[u] ]

\* removedCount of a sweep that turned store into swept
removedCount(store, swept) ==
  Cardinality({ u \in DOMAIN store : IsSome(store[u]) /\ ~IsSome(swept[u]) })

\* CLEANUP_INTERVAL_MS = 30 * 60 * 1000
CLEANUP_INTERVAL_MS == 30 * 60 * 1000
\* the period of the rate limiter's setInterval
rateCleanupIntervalMs == 60 * 1000

\* startCleanupScheduler running the sweep once and setting no timer
startCleanupSchedulerOnce(t) == None

\* ConvexTokenProvider.startCleanupScheduler: the handle it stores in
\* cleanupInterval, a timer first due one interval after the call
startCleanupScheduler(t) == Some(t + CLEANUP_INTERVAL_MS)

\* ConvexTokenProvider.stopCleanupScheduler: clearInterval, then null
stopCleanupScheduler(handle) == None

\* a timer of the process is due
TimerDue(handle, t) == IF IsSome(handle) THEN Val(handle) <= t ELSE FALSE

NoStoreOp ==
  [ op |-> "none", user |-> "", threw |-> FALSE, tokens |-> None,
    flag |-> FALSE ]

\* the order in which getStats visits the entries; its result does not
\* depend on it
UserOrder == << "u1", "u2" >>

NoStats ==
  [ totalUsers |-> 0, activeUsers |-> 0, expiredTokens |-> 0,
    oldestToken |-> None, newestToken |-> None ]

\* one turn of the loop of getStats on an entry; newest is updated like
\* oldest, with <
StatsVisitNewestMin(acc, entry, t) ==
  [ totalUsers |-> acc.totalUsers + 1,
    activeUsers |-> acc.activeUsers
      + (IF entry.lastAccessed >= t - 60 * 60 * 1000 THEN 1 ELSE 0),
    expiredTokens |-> acc.expiredTokens
      + (IF isTokenExpired(entry.tokens, t) THEN 1 ELSE 0),
    oldestToken |->
      IF acc.oldestToken = None THEN Some(entry.lastUpdated)
      ELSE IF entry.lastUpdated < Val(acc.oldestToken)
           THEN Some(entry.lastUpdated)
           ELSE acc.oldestToken,
    newestToken |->
      IF acc.newestToken = None THEN Some(entry.lastUpdated)
      ELSE IF entry.lastUpdated < Val(acc.newestToken)
           THEN Some(entry.lastUpdated)
           ELSE acc.newestToken ]

\* one turn of the loop of getStats on an entry; totalUsers is
\* tokenStore.size, counted here as the entries are visited
StatsVisit(acc, entry, t) ==
  [ totalUsers |-> acc.totalUsers + 1,
    activeUsers |-> acc.activeUsers
      + (IF entry.lastAccessed >= t - 60 * 60 * 1000 THEN 1 ELSE 0),
    expiredTokens |-> acc.expiredTokens
      + (IF isTokenExpired(entry.tokens, t) THEN 1 ELSE 0),
    oldestToken |->
      IF acc.oldestToken = None THEN Some(entry.lastUpdated)
      ELSE IF entry.lastUpdated < Val(acc.oldestToken)
           THEN Some(entry.lastUpdated)
           ELSE acc.oldestToken,
    newestToken |->
      IF acc.newestToken = None THEN Some(entry.lastUpdated)
      ELSE IF entry.lastUpdated > Val(acc.newestToken)
           THEN Some(entry.lastUpdated)
           ELSE acc.newestToken ]

RECURSIVE StatsLoop(_, _, _, _)
StatsLoop(store, us, t, acc) ==
  IF us = << >> THEN acc
  ELSE StatsLoop(store, Tail(us), t,
                 IF IsSome(EntryOf(store, Head(us)))
                 THEN StatsVisit(acc, Val(store[Head(us)]), t)
                 ELSE acc)

\* ConvexTokenProvider.getStats; null is None
getStats(store, t) == StatsLoop(store, UserOrder, t, NoStats)

\* ------------------------------------------------------------- idle parts
NoReq ==
  [ method |-> "GET", path |-> "/", origin |-> None, xApiKey |-> None,
    authorization |-> None, contentLength |-> None, forwardedFor |-> None,
    remoteAddress |-> "ip1", toolUserId |-> None ]

\* users: the tenants an active-users answer lists; tool: the tenant for
\* whom a tool has run; body: the success, hasTokens and valid members of
\* the JSON answer of a status, delete or tool request
NoRes ==
  [ headersSent |-> FALSE, statusCode |-> 0, finishPending |-> FALSE,
    users |-> None, tool |-> None, body |-> None ]

GateIdle ==
  /\ req = NoReq
  /\ res = NoRes
  /\ pc = "idle"
  /\ trace = << >>
  /\ middlewarePromise = "none"
  /\ authPromise = "none"

RateIdle ==
  /\ rateLimitStores = [ byUser |-> [ u \in Users |-> None ],
                         byIp |-> [ ip \in Ips |-> None ] ]
  /\ rl = NoOutcome
  /\ admitted = [ k \in RateKeys |-> [ reset |-> 0, n |-> 0 ] ]
  /\ rejected = [ k \in RateKeys |-> None ]
  /\ checks = 0

KeyIdle ==
  /\ providedKey = << >>
  /\ keyResult = None

StoreIdle ==
  /\ tokenStore = [ u \in Users |-> None ]
  /\ storeOp = NoStoreOp

\* the provider constructed and the rate limiter's module loaded at the
\* instant 0, both timers pending
TimerIdle ==
  /\ instance = TRUE
  /\ cleanupInterval = startCleanupScheduler(0)
  /\ rateCleanupTimer = Some(rateCleanupIntervalMs)
  /\ process = "running"
  /\ orphanIntervals = << >>

envVars == << env, portResult >>

\* OAUTH_CALLBACK_PORT unset and getOAuthCallbackPort not called
EnvIdle ==
  /\ env = None
  /\ portResult = None

\* ------------------------------------------------------------- SpecKey
\* validateApiKey applied to every secret and every provided key
InitKey ==
  /\ config \in [ enabled : BOOLEAN,
                  apiKey : StringsUpTo(Chars, MaxKeyLen),
                  allowedOrigins : { {} },
                  rateLimit : { [ maxRequestsPerUser |-> 1,
                                  maxTokenInjectionsPerIp |-> 1,
                                  windowMs |-> MsPerSecond ] } ]
  /\ ValidConfig(config)
  /\ providedKey \in StringsUpTo(Chars, MaxKeyLen)
  /\ keyResult = None
  /\ now = 0
  /\ RateIdle
  /\ StoreIdle
  /\ TimerIdle
  /\ EnvIdle
  /\ GateIdle

ValidateKey ==
  /\ keyResult = None
  /\ keyResult' = Some(validateApiKey(config, providedKey))
  /\ UNCHANGED << envVars, timerVars, config, now, rateVars, tokenStore, gateVars, providedKey,
                  storeVars >>

NextKey == ValidateKey

SpecKey == InitKey /\ [][NextKey]_vars

\* ------------------------------------------------------------- SpecRate
\* the two rate-limit middlewares, the clock and the sweep
InitRate ==
  /\ config \in [ enabled : BOOLEAN,
                  apiKey : { [ i \in 1..MinApiKeyLen |-> 1 ] },
                  allowedOrigins : { {} },
                  rateLimit : RateLimitConfigs ]
  /\ ValidConfig(config)
  /\ now = 0
  /\ RateIdle
  /\ StoreIdle
  /\ TimerIdle
  /\ EnvIdle
  /\ GateIdle
  /\ KeyIdle

TokenInjectionCheck ==
  /\ \E ip \in Ips : rateLimitTokenInjection(ip)
  /\ UNCHANGED << envVars, timerVars, config, now, tokenStore, gateVars, keyVars, storeVars >>

ToolRequestCheck ==
  /\ \E u \in { None } \cup { Some(x) : x \in RateUsers } :
       rateLimitToolRequests(u)
  /\ UNCHANGED << envVars, timerVars, config, now, tokenStore, gateVars, keyVars, storeVars >>

Tick ==
  /\ now < MaxTicks * TickMs
  /\ now' = now + TickMs
  /\ UNCHANGED << envVars, timerVars, config, rateVars, tokenStore, gateVars, keyVars, storeVars >>

CleanupRateLimits ==
  /\ rateLimitStores' =
       [ byUser |-> SweptStore(rateLimitStores.byUser, now),
         byIp |-> SweptStore(rateLimitStores.byIp, now) ]
  /\ UNCHANGED << envVars, timerVars, config, now, rl, admitted, rejected, checks, tokenStore,
                  gateVars, keyVars, storeVars >>

NextRate ==
  \/ TokenInjectionCheck
  \/ ToolRequestCheck
  \/ Tick
  \/ CleanupRateLimits

SpecRate == InitRate /\ [][NextRate]_vars

\* ------------------------------------------------------------- SpecStore
\* the token provider called directly: every userId and credential, valid or
\* not, under a clock that never runs backwards
StoreTimes ==
  { 0, bufferMs, STALE_TOKEN_THRESHOLD_MS, STALE_TOKEN_THRESHOLD_MS + bufferMs }

UserIdValues == { Str(u) : u \in Users } \cup { Str(""), Undefined }

BaseTokens ==
  [ accessToken |-> Str("at1"), refreshToken |-> Str("rt1"),
    expiresAt |-> Num(1), scope |-> Str("calendar"),
    tokenType |-> Str("Bearer") ]

OtherTokens ==
  [ accessToken |-> Str("at2"), refreshToken |-> Str("rt2"),
    expiresAt |-> Num(STALE_TOKEN_THRESHOLD_MS + 2 * bufferMs),
    scope |-> Str("events"), tokenType |-> Str("MAC") ]

\* values that are not a non-empty string: '' and 7
BadStrings == { Str(""), Num(7) }
\* -1, 1.5, 0, NaN, undefined and '5'
OddExpiresAt == { Num(-1), Num2(3), Num(0), NaN, Undefined, Str("5") }
StringFields == { "accessToken", "refreshToken", "scope", "tokenType" }

PutTokens ==
  { BaseTokens, OtherTokens }
  \cup { [ BaseTokens EXCEPT !.expiresAt = e ] : e \in OddExpiresAt }
  \cup { [ BaseTokens EXCEPT ![f] = b ] : f \in StringFields, b \in BadStrings }

\* the calls of put: every userId with the two well-formed credentials, and
\* tenant u1 with every other one
PutInputs ==
  { c \in UserIdValues \X PutTokens :
      c[2] \notin { BaseTokens, OtherTokens } => c[1] = Str("u1") }

\* credentials around the expiry boundary of the instant t
ExpiryProbes(t) ==
  { [ BaseTokens EXCEPT !.expiresAt = e ] :
      e \in { Num(t + bufferMs - 1), Num(t + bufferMs),
              Num2(2 * (t + bufferMs) + 1), Num(t + bufferMs + 1) } }

InitStore ==
  /\ config = [ enabled |-> TRUE,
                apiKey |-> [ i \in 1..MinApiKeyLen |-> 1 ],
                allowedOrigins |-> {},
                rateLimit |-> [ maxRequestsPerUser |-> 1,
                                maxTokenInjectionsPerIp |-> 1,
                                windowMs |-> MsPerSecond ] ]
  /\ now = 0
  /\ RateIdle
  /\ StoreIdle
  /\ TimerIdle
  /\ EnvIdle
  /\ GateIdle
  /\ KeyIdle

Put ==
  /\ \E c \in PutInputs :
       LET userId == c[1]
           tokens == c[2]
       IN  /\ tokenStore' = setUserTokens(tokenStore, userId, tokens, now)
           /\ storeOp' =
                [ op |-> "put", user |-> userId.s,
                  threw |-> setUserTokensThrows(userId, tokens),
                  tokens |-> IF setUserTokensThrows(userId, tokens) THEN None
                             ELSE Some(tokens),
                  flag |-> FALSE ]
  /\ UNCHANGED << envVars, timerVars, config, now, rateVars, gateVars, keyVars >>

Get ==
  /\ \E u \in Users \cup { "" } :
       /\ tokenStore' = getUserTokens(tokenStore, u, now)
       /\ storeOp' =
            [ op |-> "get", user |-> u, threw |-> FALSE,
              tokens |-> getUserTokensResult(tokenStore, u),
              flag |-> FALSE ]
  /\ UNCHANGED << envVars, timerVars, config, now, rateVars, gateVars, keyVars >>

\* hasValidTokens / the status route: getUserTokens, then isTokenExpired
HasValidTokens ==
  /\ \E u \in Users :
       LET tokens == getUserTokensResult(tokenStore, u)
       IN  /\ tokenStore' = getUserTokens(tokenStore, u, now)
           /\ storeOp' =
                [ op |-> "status", user |-> u, threw |-> FALSE,
                  tokens |-> tokens,
                  flag |-> IF IsSome(tokens)
                           THEN ~isTokenExpired(Val(tokens), now)
                           ELSE FALSE ]
  /\ UNCHANGED << envVars, timerVars, config, now, rateVars, gateVars, keyVars >>

Remove ==
  /\ \E u \in Users :
       /\ tokenStore' = removeUserTokens(tokenStore, u)
       /\ storeOp' =
            [ op |-> "remove", user |-> u, threw |-> FALSE,
              tokens |-> None, flag |-> removeUserTokensResult(tokenStore, u) ]
  /\ UNCHANGED << envVars, timerVars, config, now, rateVars, gateVars, keyVars >>

IsExpired ==
  /\ \E tokens \in ExpiryProbes(now) :
       storeOp' =
         [ op |-> "isExpired", user |-> "", threw |-> FALSE,
           tokens |-> Some(tokens), flag |-> isTokenExpired(tokens, now) ]
  /\ UNCHANGED << envVars, timerVars, config, now, rateVars, gateVars, keyVars, tokenStore >>

\* the setInterval sweep of startCleanupScheduler
CleanupStaleTokens ==
  /\ tokenStore' = cleanupStaleTokens(tokenStore, now)
  /\ storeOp' =
       [ NoStoreOp EXCEPT
           !.op = "purge",
           !.flag = removedCount(tokenStore,
                                 cleanupStaleTokens(tokenStore, now)) > 0 ]
  /\ UNCHANGED << envVars, timerVars, config, now, rateVars, gateVars, keyVars >>

\* Date.now() moves on
StoreTick ==
  /\ \E t \in StoreTimes : t > now /\ now' = t
  /\ UNCHANGED << envVars, timerVars, config, rateVars, gateVars, keyVars, tokenStore, storeVars >>

NextStore ==
  \/ Put
  \/ Get
  \/ HasValidTokens
  \/ Remove
  \/ IsExpired
  \/ CleanupStaleTokens
  \/ StoreTick

SpecStore == InitStore /\ [][NextStore]_vars

\* the provider called directly, getStats among the calls
GetStats ==
  /\ storeOp' =
       [ op |-> "stats", user |-> "", threw |-> FALSE,
         tokens |-> Some(getStats(tokenStore, now)), flag |-> FALSE ]
  /\ UNCHANGED << envVars, timerVars, config, now, rateVars, gateVars, keyVars,
                  tokenStore >>

NextStats ==
  \/ Put
  \/ Get
  \/ HasValidTokens
  \/ Remove
  \/ IsExpired
  \/ CleanupStaleTokens
  \/ StoreTick
  \/ GetStats

SpecStats == InitStore /\ [][NextStats]_vars

\* ------------------------------------------------------------- SpecSweep
\* the token provider with its cleanup scheduler, the rate limiter's sweep
\* timer and the process's signal handlers, under a clock that steps by half
\* a cleanup interval.  A timer that is due fires before the clock moves on.
SweepTickMs == CLEANUP_INTERVAL_MS \div 2
LastAccessTime == MaxAccessTicks * SweepTickMs
SweepHorizon ==
  LastAccessTime + STALE_TOKEN_THRESHOLD_MS + CLEANUP_INTERVAL_MS + SweepTickMs

InitSweep ==
  /\ config \in [ enabled : BOOLEAN,
                  apiKey : { [ i \in 1..MinApiKeyLen |-> 1 ] },
                  allowedOrigins : { {} },
                  rateLimit : { [ maxRequestsPerUser |-> 1,
                                  maxTokenInjectionsPerIp |-> 1,
                                  windowMs |-> MsPerSecond ] } ]
  /\ now = 0
  /\ RateIdle
  /\ StoreIdle
  /\ GateIdle
  /\ KeyIdle
  /\ instance = FALSE
  /\ cleanupInterval = None
  /\ rateCleanupTimer = Some(rateCleanupIntervalMs)
  /\ process = "running"
  /\ orphanIntervals = << >>
  /\ EnvIdle

\* getConvexTokenProvider, first call: new ConvexTokenProvider().  The
\* constructor runs cleanupStaleTokens at once, sets the interval timer and
\* registers stopCleanupScheduler for SIGTERM and SIGINT
NewProvider ==
  /\ ~instance
  /\ process # "exited"
  /\ now <= LastAccessTime
  /\ instance' = TRUE
  /\ tokenStore' = cleanupStaleTokens(tokenStore, now)
  /\ storeOp' =
       [ NoStoreOp EXCEPT
           !.op = "purge",
           !.flag = removedCount(tokenStore,
                                 cleanupStaleTokens(tokenStore, now)) > 0 ]
  /\ cleanupInterval' = startCleanupScheduler(now)
  /\ UNCHANGED << envVars, config, now, rateVars, gateVars, keyVars, rateCleanupTimer,
                  process, orphanIntervals >>

\* setUserTokens for a tenant
SweepPut ==
  /\ instance
  /\ process # "exited"
  /\ now <= LastAccessTime
  /\ \E u \in Users :
       /\ tokenStore' = setUserTokens(tokenStore, Str(u), OtherTokens, now)
       /\ storeOp' =
            [ op |-> "put", user |-> u, threw |-> FALSE,
              tokens |-> Some(OtherTokens), flag |-> FALSE ]
  /\ UNCHANGED << envVars, timerVars, config, now, rateVars, gateVars, keyVars >>

\* getUserTokens for a tenant
SweepGet ==
  /\ instance
  /\ process # "exited"
  /\ now <= LastAccessTime
  /\ \E u \in Users :
       /\ tokenStore' = getUserTokens(tokenStore, u, now)
       /\ storeOp' =
            [ op |-> "get", user |-> u, threw |-> FALSE,
              tokens |-> getUserTokensResult(tokenStore, u),
              flag |-> FALSE ]
  /\ UNCHANGED << envVars, timerVars, config, now, rateVars, gateVars, keyVars >>

\* the callback of the provider's setInterval
CleanupTimerFires ==
  /\ process # "exited"
  /\ TimerDue(cleanupInterval, now)
  /\ tokenStore' = cleanupStaleTokens(tokenStore, now)
  /\ storeOp' =
       [ NoStoreOp EXCEPT
           !.op = "purge",
           !.flag = removedCount(tokenStore,
                                 cleanupStaleTokens(tokenStore, now)) > 0 ]
  /\ cleanupInterval' = Some(now + CLEANUP_INTERVAL_MS)
  /\ UNCHANGED << envVars, config, now, rateVars, gateVars, keyVars, instance,
                  rateCleanupTimer, process, orphanIntervals >>

\* the callback of the rate limiter's setInterval
RateTimerFires ==
  /\ process # "exited"
  /\ TimerDue(rateCleanupTimer, now)
  /\ rateLimitStores' =
       [ byUser |-> SweptStore(rateLimitStores.byUser, now),
         byIp |-> SweptStore(rateLimitStores.byIp, now) ]
  /\ rateCleanupTimer' = Some(now + rateCleanupIntervalMs)
  /\ UNCHANGED << envVars, config, now, rl, admitted, rejected, checks, tokenStore,
                  gateVars, keyVars, storeVars, instance, cleanupInterval,
                  process, orphanIntervals >>

\* SIGTERM or SIGINT: the listeners run in the order of their registration,
\* the server's cleanup (setupGracefulShutdown, registered by initialize)
\* before the provider's stopCleanupScheduler (registered by the first
\* request that needs the provider).  In Convex mode there is no authServer,
\* so cleanup reaches process.exit(0) at once; otherwise it suspends at
\* await this.authServer.stop() and the provider's listener runs
Signal ==
  /\ process = "running"
  /\ IF config.enabled
     THEN /\ process' = "exited"
          /\ UNCHANGED << cleanupInterval, orphanIntervals >>
     ELSE /\ process' = "stopping"
          /\ cleanupInterval' = IF instance
                                THEN stopCleanupScheduler(cleanupInterval)
                                ELSE cleanupInterval
          /\ orphanIntervals' = << >>
  /\ UNCHANGED << envVars, config, now, rateVars, tokenStore, gateVars, keyVars,
                  storeVars, instance, rateCleanupTimer >>

\* cleanup resumes after the await: server.close(), process.exit(0)
Exit ==
  /\ process = "stopping"
  /\ process' = "exited"
  /\ UNCHANGED << envVars, config, now, rateVars, tokenStore, gateVars, keyVars,
                  storeVars, instance, cleanupInterval, rateCleanupTimer,
                  orphanIntervals >>

\* Date.now() moves on by half an interval, once no timer is due (the
\* clock of a process that has exited is not followed)
SweepTick ==
  /\ now < SweepHorizon
  /\ process # "exited"
  /\ ~TimerDue(cleanupInterval, now)
  /\ ~TimerDue(rateCleanupTimer, now)
  /\ now' = now + SweepTickMs
  /\ UNCHANGED << envVars, timerVars, config, rateVars, tokenStore, gateVars, keyVars,
                  storeVars >>

NextSweep ==
  \/ NewProvider
  \/ SweepPut
  \/ SweepGet
  \/ CleanupTimerFires
  \/ RateTimerFires
  \/ Signal
  \/ Exit
  \/ SweepTick

SpecSweep == InitSweep /\ [][NextSweep]_vars

\* the same with the timers firing when due and the clock moving on
SpecSweepLive ==
  /\ InitSweep
  /\ [][NextSweep]_vars
  /\ WF_vars(SweepTick)
  /\ WF_vars(CleanupTimerFires)
  /\ WF_vars(RateTimerFires)

\* -------------------------------------------------------------- SpecReset
\* The singleton of the provider module: getConvexTokenProvider and
\* resetConvexTokenProvider, with the timers of the providers made so far
MaxResets == 2
ResetHorizon == 2 * CLEANUP_INTERVAL_MS

\* resetConvexTokenProvider: instance = null, and nothing else.  The dropped
\* provider is not told: its setInterval stays scheduled, and so do its
\* SIGTERM and SIGINT listeners.  The next getConvexTokenProvider builds a
\* provider with a Map of its own
ResetProvider ==
  /\ process # "exited"
  /\ Len(orphanIntervals) < MaxResets
  /\ instance' = FALSE
  /\ tokenStore' = [ u \in Users |-> None ]
  /\ storeOp' = [ NoStoreOp EXCEPT !.op = "reset" ]
  /\ cleanupInterval' = None
  /\ orphanIntervals' =
       IF IsSome(cleanupInterval)
       THEN Append(orphanIntervals, Val(cleanupInterval))
       ELSE orphanIntervals
  /\ UNCHANGED << envVars, config, now, rateVars, gateVars, keyVars,
                  rateCleanupTimer, process >>

\* the callback of a dropped provider's setInterval: cleanupStaleTokens on
\* the Map of that provider, which no longer is the singleton's
OrphanTimerFires ==
  /\ process # "exited"
  /\ \E i \in 1..Len(orphanIntervals) :
       /\ orphanIntervals[i] <= now
       /\ orphanIntervals' =
            [ orphanIntervals EXCEPT ![i] = now + CLEANUP_INTERVAL_MS ]
  /\ storeOp' = [ NoStoreOp EXCEPT !.op = "purgeDropped" ]
  /\ UNCHANGED << envVars, config, now, rateVars, tokenStore, gateVars,
                  keyVars, instance, cleanupInterval, rateCleanupTimer,
                  process >>

\* Date.now() moves on by half an interval, once no timer is due
ResetTick ==
  /\ now < ResetHorizon
  /\ process # "exited"
  /\ ~TimerDue(cleanupInterval, now)
  /\ ~TimerDue(rateCleanupTimer, now)
  /\ \A i \in 1..Len(orphanIntervals) : orphanIntervals[i] > now
  /\ now' = now + SweepTickMs
  /\ UNCHANGED << envVars, timerVars, config, rateVars, tokenStore, gateVars,
                  keyVars, storeVars >>

NextReset ==
  \/ NewProvider
  \/ ResetProvider
  \/ SweepPut
  \/ SweepGet
  \/ CleanupTimerFires
  \/ OrphanTimerFires
  \/ RateTimerFires
  \/ Signal
  \/ Exit
  \/ ResetTick

SpecReset == InitSweep /\ [][NextReset]_vars

\* ------------------------------------------------------------- SpecPolicy
\* ConvexConfig.loadFromEnvironment with TOKEN_MIN_EXPIRY_BUFFER_MS,
\* CLEANUP_INTERVAL_MS and CLEANUP_STALE_THRESHOLD_MS unset (the defaults,
\* listed first) or set, and the provider, the injection test and the
\* metrics route working under the resulting policy
PolicyBuffers == { 5 * 60 * 1000, 10 * 60 * 1000 }
PolicyIntervals == { 30 * 60 * 1000, 15 * 60 * 1000 }
PolicyThresholds == { 24 * 60 * 60 * 1000, 12 * 60 * 60 * 1000 }

PolicyTimes ==
  { 0, 12 * 60 * 60 * 1000, 12 * 60 * 60 * 1000 + CLEANUP_INTERVAL_MS,
    STALE_TOKEN_THRESHOLD_MS, STALE_TOKEN_THRESHOLD_MS + CLEANUP_INTERVAL_MS }

InitPolicy ==
  /\ config \in [ enabled : BOOLEAN,
                  apiKey : { [ i \in 1..MinApiKeyLen |-> 1 ] },
                  allowedOrigins : { {} },
                  rateLimit : { [ maxRequestsPerUser |-> 1,
                                  maxTokenInjectionsPerIp |-> 1,
                                  windowMs |-> MsPerSecond ] },
                  tokenValidation :
                    [ minExpiryBufferMs : PolicyBuffers,
                      expiryWarningThresholdMs : { 10 * 60 * 1000 } ],
                  cleanup : [ intervalMs : PolicyIntervals,
                              staleThresholdMs : PolicyThresholds ] ]
  /\ now = 0
  /\ RateIdle
  /\ StoreIdle
  /\ TimerIdle
  /\ EnvIdle
  /\ GateIdle
  /\ KeyIdle

\* handleInjectTokens: the expiry test, with the buffer of the policy cfg
ExpiryRejectedUnder(cfg, expiresAt, t) ==
  LET twiceUntilExpiry == expiresAt.twice - 2 * t
  IN  \/ twiceUntilExpiry <= 0
      \/ twiceUntilExpiry < 2 * cfg.tokenValidation.minExpiryBufferMs

\* expiry times around the two buffers, from the instant t
PolicyExpiries(t) ==
  { Num(t + b + d) : b \in PolicyBuffers, d \in { 0, 1 } }

\* handleInjectTokens for tenant u1 with a well-formed body: the expiry
\* test, then setUserTokens
PolicyInject ==
  /\ now = 0
  /\ \E e \in PolicyExpiries(now) :
       LET tokens == [ BaseTokens EXCEPT !.expiresAt = e ]
           refused == ExpiryRejectedUnder(config, e, now)
       IN  /\ tokenStore' = IF refused THEN tokenStore
                            ELSE setUserTokens(tokenStore, Str("u1"), tokens, now)
           /\ storeOp' = [ op |-> "inject", user |-> "u1", threw |-> FALSE,
                           tokens |-> Some(tokens), flag |-> ~refused ]
  /\ UNCHANGED << envVars, timerVars, config, now, rateVars, gateVars, keyVars >>

\* handleMetrics: the config part of the answer
PolicyMetrics ==
  /\ res' = [ NoRes EXCEPT
                !.headersSent = TRUE,
                !.statusCode = 200,
                !.body = IF config.enabled
                         THEN Some([ tokenValidation |-> config.tokenValidation,
                                     cleanup |-> config.cleanup ])
                         ELSE None ]
  /\ UNCHANGED << envVars, timerVars, config, now, rateVars, tokenStore, keyVars,
                  storeVars, req, pc, trace, middlewarePromise, authPromise >>

\* Date.now() moves on, once the sweep that is due has run
PolicyTick ==
  /\ ~TimerDue(cleanupInterval, now)
  /\ \E t \in PolicyTimes : t > now /\ now' = t
  /\ UNCHANGED << envVars, timerVars, config, rateVars, tokenStore, gateVars, keyVars,
                  storeVars >>

NextPolicy ==
  \/ PolicyInject
  \/ PolicyMetrics
  \/ CleanupTimerFires
  \/ PolicyTick

SpecPolicy == InitPolicy /\ [][NextPolicy]_vars

\* ------------------------------------------------------------- SpecNames
\* the provider and the two rate-limit middlewares called with the same
\* strings: a tenant id is also the address a client reports
Names == Users

NameKeys == { "byUser", "byIp" } \X Names

InitNames ==
  /\ config = [ enabled |-> TRUE,
                apiKey |-> [ i \in 1..MinApiKeyLen |-> 1 ],
                allowedOrigins |-> {},
                rateLimit |-> [ maxRequestsPerUser |-> 1,
                                maxTokenInjectionsPerIp |-> 2,
                                windowMs |-> MsPerSecond ] ]
  /\ now = 0
  /\ rateLimitStores = [ byUser |-> [ u \in Names |-> None ],
                         byIp |-> [ ip \in Names |-> None ] ]
  /\ rl = NoOutcome
  /\ admitted = [ k \in NameKeys |-> [ reset |-> 0, n |-> 0 ] ]
  /\ rejected = [ k \in NameKeys |-> None ]
  /\ checks = 0
  /\ StoreIdle
  /\ TimerIdle
  /\ EnvIdle
  /\ GateIdle
  /\ KeyIdle

NamesTokenInjectionCheck ==
  /\ \E ip \in Names : rateLimitTokenInjection(ip)
  /\ UNCHANGED << envVars, timerVars, config, now, tokenStore, gateVars, keyVars,
                  storeVars >>

NamesToolRequestCheck ==
  /\ \E u \in Names : rateLimitToolRequests(Some(u))
  /\ UNCHANGED << envVars, timerVars, config, now, tokenStore, gateVars, keyVars,
                  storeVars >>

\* Date.now() moves on, once
NamesTick ==
  /\ now = 0
  /\ now' = TickMs
  /\ UNCHANGED << envVars, timerVars, config, rateVars, tokenStore, gateVars,
                  keyVars, storeVars >>

NextNames ==
  \/ NamesTokenInjectionCheck
  \/ NamesToolRequestCheck
  \/ SweepPut
  \/ SweepGet
  \/ Remove
  \/ NamesTick

SpecNames == InitNames /\ [][NextNames]_vars

\* ------------------------------------------------------------- middleware
\* what a stage does with a request: the status of the response it sends
\* (0: none) and whether it calls its continuation
Pass == [ status |-> 0, next |-> TRUE ]
Stop(code) == [ status |-> code, next |-> FALSE ]

\* value.replace('Bearer ', ''): the first occurrence is removed
RECURSIVE ReplaceBearer(_)
ReplaceBearer(s) ==
  IF s = << >> THEN << >>
  ELSE IF Head(s) = BearerTok THEN Tail(s)
  ELSE << Head(s) >> \o ReplaceBearer(Tail(s))

\* the extraction with the two headers read in the other order
ExtractApiKeyBearerFirst(r) ==
  IF IsSome(r.authorization) /\ ReplaceBearer(Val(r.authorization)) # << >>
  THEN ReplaceBearer(Val(r.authorization))
  ELSE IF IsSome(r.xApiKey) THEN Val(r.xApiKey)
       ELSE << >>

\* apiKeyAuth: headers['x-api-key'] || authorization?.replace(...) || ''
ExtractApiKey(r) ==
  IF IsSome(r.xApiKey) /\ Val(r.xApiKey) # << >> THEN Val(r.xApiKey)
  ELSE IF IsSome(r.authorization)
       THEN ReplaceBearer(Val(r.authorization))
       ELSE << >>

\* handleManagementEndpoints: the same without the final || '', so the
\* result is undefined when neither header gives a key
ExtractApiKeyOpt(r) ==
  IF IsSome(r.xApiKey) /\ Val(r.xApiKey) # << >> THEN r.xApiKey
  ELSE IF IsSome(r.authorization)
       THEN Some(ReplaceBearer(Val(r.authorization)))
       ELSE None

\* getClientIp: the first x-forwarded-for address, else the socket's
getClientIp(r) ==
  IF IsSome(r.forwardedFor) THEN Val(r.forwardedFor) ELSE r.remoteAddress

\* corsMiddleware letting a request without Origin header through
corsMiddlewareLenient(cfg, r) ==
  IF ~cfg.enabled THEN Pass
  ELSE IF /\ IsSome(r.origin)
          /\ ~isOriginAllowed(cfg, Val(r.origin))
          /\ "*" \notin cfg.allowedOrigins
          /\ r.method # "OPTIONS"
       THEN Stop(403)
       ELSE IF r.method = "OPTIONS" THEN Stop(204) ELSE Pass

\* corsMiddleware denying a disallowed origin whatever the method
corsMiddlewareDenyFirst(cfg, r) ==
  IF ~cfg.enabled THEN Pass
  ELSE IF /\ ~(IsSome(r.origin) /\ isOriginAllowed(cfg, Val(r.origin)))
          /\ "*" \notin cfg.allowedOrigins
       THEN Stop(403)
       ELSE IF r.method = "OPTIONS" THEN Stop(204) ELSE Pass

\* corsMiddleware
corsMiddleware(cfg, r) ==
  IF ~cfg.enabled THEN Pass
  ELSE IF /\ ~(IsSome(r.origin) /\ isOriginAllowed(cfg, Val(r.origin)))
          /\ "*" \notin cfg.allowedOrigins
          /\ r.method # "OPTIONS"
       THEN Stop(403)
       ELSE IF r.method = "OPTIONS" THEN Stop(204) ELSE Pass

\* securityHeaders
securityHeaders(cfg, r) == Pass

\* apiKeyAuth without the isEnabled test
apiKeyAuthAlways(cfg, r) ==
  IF ~validateApiKey([ cfg EXCEPT !.enabled = TRUE ], ExtractApiKey(r))
  THEN Stop(401)
  ELSE Pass

\* apiKeyAuth without the key check
apiKeyAuthOpen(cfg, r) == Pass

\* apiKeyAuth with the return after sendJsonError missing
apiKeyAuthFallThrough(cfg, r) ==
  IF ~cfg.enabled THEN Pass
  ELSE IF ~validateApiKey(cfg, ExtractApiKey(r))
       THEN [ status |-> 401, next |-> TRUE ]
       ELSE Pass

\* apiKeyAuth
apiKeyAuth(cfg, r) ==
  IF ~cfg.enabled THEN Pass
  ELSE IF ~validateApiKey(cfg, ExtractApiKey(r)) THEN Stop(401)
       ELSE Pass

\* parseInt(req.headers['content-length'] || '0', 10)
ContentLength(r) ==
  IF IsSome(r.contentLength) THEN Val(r.contentLength) ELSE 0

\* the listener without the size test
SizeLimitOff(r) == Pass

\* the size test with >= in place of >
SizeLimitInclusive(r) ==
  IF ContentLength(r) >= maxRequestSize THEN Stop(413) ELSE Pass

\* the request listener's size test
SizeLimit(r) ==
  IF ContentLength(r) > maxRequestSize THEN Stop(413) ELSE Pass

\* res after writeHead(code) and end(): the 'finish' event is queued
Respond(r, code) ==
  IF r.headersSent THEN r
  ELSE [ r EXCEPT !.headersSent = TRUE, !.statusCode = code,
                  !.finishPending = TRUE ]

\* res after a stage with outcome o
AfterStage(r, o) == IF o.status # 0 THEN Respond(r, o.status) ELSE r

\* ------------------------------------------------------------- SpecGate
\* the request listener of HttpTransportHandler.connect, one request at a
\* time, with the management and credential routes behind it
Methods == {"GET", "POST", "DELETE", "OPTIONS"}
TokenPaths == {"/api/tokens", "/api/tokens/u1", "/api/tokens/u1/status"}
Paths == {"/health", "/api/users/active", "/mcp"} \cup TokenPaths

\* the secret of the gate's policy, a key of the same length that differs
\* from it and a shorter key
GateSecret == [ i \in 1..MinApiKeyLen |-> IF i = 1 THEN 1 ELSE MaxChar ]
WrongKey == [ GateSecret EXCEPT ![1] = MaxChar ]
ShortKey == Tail(GateSecret)

XApiKeyValues == { None, Some(GateSecret), Some(WrongKey) }
AuthorizationValues ==
  { None, Some(<< BearerTok >> \o GateSecret), Some(<< BearerTok >> \o ShortKey) }

\* the requests served: a header no route of the path reads is left out
GateRequests ==
  { r \in [ method : Methods,
            path : Paths,
            origin : { None } \cup { Some(o) : o \in Origins },
            xApiKey : XApiKeyValues,
            authorization : AuthorizationValues,
            contentLength : { None, Some(maxRequestSize),
                              Some(maxRequestSize + 1) },
            forwardedFor : { None, Some("ip2") },
            remoteAddress : { "ip1" },
            toolUserId : { None, Some("u1") } ] :
      /\ r.path \notin TokenPaths => r.forwardedFor = None
      /\ (r.path # "/mcp" \/ r.method # "POST") => r.toolUserId = None
      /\ r.path \notin TokenPaths \cup {"/api/users/active"} =>
           (r.xApiKey = None /\ r.authorization = None) }

\* tokenValidation.minExpiryBufferMs, 5 minutes by default
minExpiryBufferMs == 5 * 60 * 1000

\* an expiry far enough ahead of every instant of the run
FarExpiry == minExpiryBufferMs + MaxTicks * TickMs

\* the bodies posted to /api/tokens; json is false for a body that is not
\* JSON
InjectBodies ==
  [ json : BOOLEAN,
    userId : { Str("u1"), Str("") },
    accessToken : { Str("at1") },
    refreshToken : { Str("rt1") },
    expiresAt : { Num(1), Num(FarExpiry), Num2(2 * FarExpiry + 1), Num(-1),
                  Num(0), Str("5") },
    scope : { Str("calendar") },
    tokenType : { Str("Bearer") } ]

\* z.string().min(1)
NonEmptyString(v) == v.kind = "string" /\ v.s # ""

\* handleInjectTokens rejecting the expired credential only
ExpiryRejectedPastOnly(expiresAt, t) == expiresAt.twice - 2 * t <= 0

\* handleInjectTokens: timeUntilExpiry <= 0, or below minExpiryBufferMs
ExpiryRejected(expiresAt, t) ==
  LET \* 2 * (data.expiresAt - now)
      twiceUntilExpiry == expiresAt.twice - 2 * t
  IN  \/ twiceUntilExpiry <= 0
      \/ twiceUntilExpiry < 2 * minExpiryBufferMs

\* handleTokenStatus without the return for a tenant that has no tokens
TokenStatusBodyNoReturn(tokensOpt, t) ==
  [ success |-> TRUE, hasTokens |-> TRUE,
    valid |-> IF IsSome(tokensOpt) THEN ~isTokenExpired(Val(tokensOpt), t)
              ELSE TRUE ]

\* handleTokenStatus: the answer for the tokens getUserTokens returned
TokenStatusBody(tokensOpt, t) ==
  [ success |-> TRUE, hasTokens |-> IsSome(tokensOpt),
    valid |-> IF IsSome(tokensOpt) THEN ~isTokenExpired(Val(tokensOpt), t)
              ELSE FALSE ]

\* InjectTokensSchema with z.number() alone for expiresAt
InjectTokensSchemaLoose(body) ==
  /\ NonEmptyString(body.userId)
  /\ NonEmptyString(body.accessToken)
  /\ NonEmptyString(body.refreshToken)
  /\ body.expiresAt.kind = "number"
  /\ NonEmptyString(body.scope)
  /\ NonEmptyString(body.tokenType)

\* InjectTokensSchema.safeParse(body).success
InjectTokensSchema(body) ==
  /\ NonEmptyString(body.userId)
  /\ NonEmptyString(body.accessToken)
  /\ NonEmptyString(body.refreshToken)
  /\ body.expiresAt.kind = "number"
  /\ IsInteger(body.expiresAt)
  /\ body.expiresAt.twice > 0
  /\ NonEmptyString(body.scope)
  /\ NonEmptyString(body.tokenType)

InitGate ==
  /\ config \in [ enabled : BOOLEAN,
                  apiKey : { GateSecret },
                  allowedOrigins : { {"https://app"} },
                  rateLimit : { [ maxRequestsPerUser |-> 1,
                                  maxTokenInjectionsPerIp |-> 1,
                                  windowMs |-> MsPerSecond ] } ]
  /\ ValidConfig(config)
  /\ now = 0
  /\ RateIdle
  /\ StoreIdle
  /\ TimerIdle
  /\ EnvIdle
  /\ GateIdle
  /\ KeyIdle

Ran(stage) == trace' = Append(trace, stage)

\* http.createServer's listener is called with a new request
NewRequest ==
  /\ pc = "idle"
  /\ req' \in GateRequests
  /\ res' = NoRes
  /\ trace' = << >>
  /\ middlewarePromise' = "pending"
  /\ authPromise' = "none"
  /\ pc' = "corsMiddleware"
  /\ UNCHANGED << envVars, timerVars, config, now, rateVars, tokenStore, keyVars, storeVars >>

\* composeMiddleware(corsMiddleware(), securityHeaders()): first stage
CorsStage ==
  /\ pc = "corsMiddleware"
  /\ LET o == corsMiddleware(config, req)
     IN  /\ res' = AfterStage(res, o)
         /\ pc' = IF o.next THEN "securityHeaders" ELSE "awaitMiddleware"
  /\ Ran("corsMiddleware")
  /\ UNCHANGED << envVars, timerVars, config, now, rateVars, tokenStore, keyVars, storeVars, req,
                  middlewarePromise, authPromise >>

\* second stage; its continuation is the listener's callback, which sets
\* middlewareComplete and resolves the promise
SecurityHeadersStage ==
  /\ pc = "securityHeaders"
  /\ LET o == securityHeaders(config, req)
     IN  /\ res' = AfterStage(res, o)
         /\ middlewarePromise' = IF o.next THEN "resolved"
                                 ELSE middlewarePromise
  /\ pc' = "awaitMiddleware"
  /\ Ran("securityHeaders")
  /\ UNCHANGED << envVars, timerVars, config, now, rateVars, tokenStore, keyVars, storeVars, req,
                  authPromise >>

\* the response's 'finish' event: both listeners run
EmitFinish ==
  /\ res.finishPending
  /\ res' = [ res EXCEPT !.finishPending = FALSE ]
  /\ middlewarePromise' = IF middlewarePromise = "pending" THEN "resolved"
                          ELSE middlewarePromise
  /\ authPromise' = IF authPromise = "pending" /\ res.headersSent
                    THEN "false" ELSE authPromise
  /\ UNCHANGED << envVars, timerVars, config, now, rateVars, tokenStore, keyVars, storeVars, req, pc,
                  trace >>

\* after the await: if (res.headersSent) return
AwaitMiddleware ==
  /\ pc = "awaitMiddleware"
  /\ middlewarePromise = "resolved"
  /\ pc' = IF res.headersSent THEN "done" ELSE "sizeLimit"
  /\ UNCHANGED << envVars, timerVars, config, now, rateVars, tokenStore, keyVars, storeVars, req, res,
                  trace, middlewarePromise, authPromise >>

\* the listener's own request size limit
SizeLimitStage ==
  /\ pc = "sizeLimit"
  /\ LET o == SizeLimit(req)
     IN  /\ res' = AfterStage(res, o)
         /\ pc' = IF o.next THEN "management" ELSE "done"
  /\ Ran("sizeLimit")
  /\ UNCHANGED << envVars, timerVars, config, now, rateVars, tokenStore, keyVars, storeVars, req,
                  middlewarePromise, authPromise >>

ManagementPaths == {"/health", "/api/users/active"}

\* handleManagementEndpoints: not a management route, return false
ManagementSkip ==
  /\ pc = "management"
  /\ req.method # "GET" \/ req.path \notin ManagementPaths
  /\ pc' = "tokenEndpoints"
  /\ UNCHANGED << envVars, timerVars, config, now, rateVars, tokenStore, keyVars, storeVars, req, res,
                  trace, middlewarePromise, authPromise >>

\* GET /health (and the other open routes: /metrics, /version, /api/config)
HealthCheck ==
  /\ pc = "management"
  /\ req.method = "GET"
  /\ req.path = "/health"
  /\ res' = Respond(res, 200)
  /\ pc' = "done"
  /\ Ran("handleHealthCheck")
  /\ UNCHANGED << envVars, timerVars, config, now, rateVars, tokenStore, keyVars, storeVars, req,
                  middlewarePromise, authPromise >>

\* GET /api/users/active: the key check, then handleActiveUsers.  With no
\* key in either header validateApiKey throws; nothing catches it, so the
\* listener's promise rejects and no response is written
ActiveUsers ==
  /\ pc = "management"
  /\ req.method = "GET"
  /\ req.path = "/api/users/active"
  /\ LET key == ExtractApiKeyOpt(req)
     IN  IF config.enabled /\ validateApiKeyThrows(config, key)
         THEN /\ pc' = "threw"
              /\ Ran("adminKeyCheck")
              /\ UNCHANGED << res, tokenStore >>
         ELSE IF config.enabled /\ ~validateApiKey(config, Val(key))
         THEN /\ res' = Respond(res, 401)
              /\ pc' = "done"
              /\ Ran("adminKeyCheck")
              /\ UNCHANGED tokenStore
         ELSE /\ res' = [ Respond(res, 200) EXCEPT
                            !.users = Some(getAllUserIds(tokenStore)) ]
              /\ tokenStore' =
                   [ u \in DOMAIN tokenStore |->
                       getUserTokens(tokenStore, u, now)[u] ]
              /\ pc' = "done"
              /\ Ran("handleActiveUsers")
  /\ UNCHANGED << envVars, timerVars, config, now, rateVars, keyVars, storeVars, req, middlewarePromise,
                  authPromise >>

\* handleTokenEndpoints: not a credential route, return false
TokenEndpointsSkip ==
  /\ pc = "tokenEndpoints"
  /\ req.path \notin TokenPaths
  /\ pc' = "mcp"
  /\ UNCHANGED << envVars, timerVars, config, now, rateVars, tokenStore, keyVars, storeVars, req, res,
                  trace, middlewarePromise, authPromise >>

\* handleTokenEndpoints: composeMiddleware(apiKeyAuth(),
\* rateLimitTokenInjection()) is started inside a new promise
TokenEndpointsEnter ==
  /\ pc = "tokenEndpoints"
  /\ req.path \in TokenPaths
  /\ authPromise' = "pending"
  /\ pc' = "apiKeyAuth"
  /\ UNCHANGED << envVars, timerVars, config, now, rateVars, tokenStore, keyVars, storeVars, req, res,
                  trace, middlewarePromise >>

ApiKeyAuthStage ==
  /\ pc = "apiKeyAuth"
  /\ LET o == apiKeyAuth(config, req)
     IN  /\ res' = AfterStage(res, o)
         /\ pc' = IF o.next THEN "rateLimitTokenInjection" ELSE "awaitAuth"
  /\ Ran("apiKeyAuth")
  /\ UNCHANGED << envVars, timerVars, config, now, rateVars, tokenStore, keyVars, storeVars, req,
                  middlewarePromise, authPromise >>

\* the last stage; its continuation is () => resolve(true)
RateLimitStage ==
  /\ pc = "rateLimitTokenInjection"
  /\ rateLimitTokenInjection(getClientIp(req))
  /\ res' = IF rl'.allowed THEN res ELSE Respond(res, 429)
  /\ authPromise' = IF rl'.allowed /\ authPromise = "pending" THEN "true"
                    ELSE authPromise
  /\ pc' = "awaitAuth"
  /\ Ran("rateLimitTokenInjection")
  /\ UNCHANGED << envVars, timerVars, config, now, tokenStore, keyVars, storeVars, req, middlewarePromise >>

\* after the await: if (!authenticated || res.headersSent) return true
AwaitAuth ==
  /\ pc = "awaitAuth"
  /\ authPromise \in {"true", "false"}
  /\ pc' = IF authPromise = "false" \/ res.headersSent THEN "done"
           ELSE "route"
  /\ UNCHANGED << envVars, timerVars, config, now, rateVars, tokenStore, keyVars, storeVars, req, res,
                  trace, middlewarePromise, authPromise >>

IsInject == req.method = "POST" /\ req.path = "/api/tokens"
IsStatus == req.method = "GET" /\ req.path = "/api/tokens/u1/status"
IsDelete == req.method = "DELETE" /\ req.path # "/api/tokens"

\* the credential handleInjectTokens builds from a validated body
UserTokensOf(body) ==
  [ accessToken |-> body.accessToken,
    refreshToken |-> body.refreshToken,
    expiresAt |-> body.expiresAt,
    scope |-> body.scope,
    tokenType |-> body.tokenType ]

\* POST /api/tokens: handleInjectTokens on the posted body
InjectTokensBody(body) ==
  /\ pc = "route"
  /\ IsInject
  /\ IF ~body.json \/ ~InjectTokensSchema(body)
     THEN /\ res' = Respond(res, 400)
          /\ UNCHANGED tokenStore
     ELSE IF ExpiryRejected(body.expiresAt, now)
     THEN /\ res' = Respond(res, 400)
          /\ UNCHANGED tokenStore
     ELSE IF setUserTokensThrows(body.userId, UserTokensOf(body))
     THEN /\ res' = Respond(res, 500)
          /\ UNCHANGED tokenStore
     ELSE /\ res' = Respond(res, 200)
          /\ tokenStore' =
               setUserTokens(tokenStore, body.userId, UserTokensOf(body), now)
  /\ pc' = "done"
  /\ Ran("handleInjectTokens")
  /\ UNCHANGED << envVars, timerVars, config, now, rateVars, keyVars, req,
                  middlewarePromise, authPromise >>

\* POST /api/tokens: handleInjectTokens
InjectTokens ==
  /\ \E body \in InjectBodies : InjectTokensBody(body)
  /\ UNCHANGED storeVars

\* GET /api/tokens/:userId/status: handleTokenStatus
TokenStatus ==
  /\ pc = "route"
  /\ IsStatus
  /\ tokenStore' = getUserTokens(tokenStore, "u1", now)
  /\ res' = [ Respond(res, 200) EXCEPT
               !.body = Some(TokenStatusBody(
                               getUserTokensResult(tokenStore, "u1"), now)) ]
  /\ pc' = "done"
  /\ Ran("handleTokenStatus")
  /\ UNCHANGED << envVars, timerVars, config, now, rateVars, keyVars, storeVars, req, middlewarePromise,
                  authPromise >>

\* DELETE /api/tokens/:userId: handleDeleteTokens
DeleteTokens ==
  /\ pc = "route"
  /\ IsDelete
  /\ tokenStore' = removeUserTokens(getUserTokens(tokenStore, "u1", now), "u1")
  /\ res' = [ Respond(res, 200) EXCEPT
               !.body = Some([ success |-> TRUE,
                               hasTokens |->
                                 IsSome(getUserTokensResult(tokenStore, "u1")),
                               valid |-> FALSE ]) ]
  /\ pc' = "done"
  /\ Ran("handleDeleteTokens")
  /\ UNCHANGED << envVars, timerVars, config, now, rateVars, keyVars, storeVars, req, middlewarePromise,
                  authPromise >>

\* no credential route matches: 404
TokenNotFound ==
  /\ pc = "route"
  /\ ~IsInject /\ ~IsStatus /\ ~IsDelete
  /\ res' = Respond(res, 404)
  /\ pc' = "done"
  /\ Ran("notFound")
  /\ UNCHANGED << envVars, timerVars, config, now, rateVars, tokenStore, keyVars, storeVars, req,
                  middlewarePromise, authPromise >>

\* GoogleCalendarMcpServer.executeWithHandler for the tool call of the
\* request, if it carries one: the tenant for whom handler.runTool runs.  In
\* enabled mode that is the userId argument when the provider holds its
\* tokens; otherwise the shared client is used and no tenant is involved
executeWithHandler(cfg, store, userIdOpt) ==
  IF cfg.enabled /\ IsSome(userIdOpt)
  THEN (IF IsSome(getUserTokensResult(store, Val(userIdOpt)))
        THEN userIdOpt ELSE None)
  ELSE None

\* the MCP transport: 406 on an unacceptable Accept header, else the
\* transport answers, running the tool the request calls
McpRequest ==
  /\ pc = "mcp"
  /\ \E code \in {200, 406} :
       IF code = 200 /\ config.enabled /\ IsSome(req.toolUserId)
       THEN /\ res' =
                 LET tool == executeWithHandler(config, tokenStore,
                                                req.toolUserId)
                 IN  [ Respond(res, code) EXCEPT
                         !.tool = tool,
                         !.body = Some([ success |-> IsSome(tool),
                                         hasTokens |-> IsSome(tool),
                                         valid |-> FALSE ]) ]
            /\ tokenStore' = getUserTokens(tokenStore, Val(req.toolUserId), now)
       ELSE /\ res' = Respond(res, code)
            /\ UNCHANGED tokenStore
  /\ pc' = "done"
  /\ Ran("mcp")
  /\ UNCHANGED << envVars, timerVars, config, now, rateVars, keyVars, storeVars, req,
                  middlewarePromise, authPromise >>

\* the listener has returned (or its promise has rejected) and the response
\* is complete: the request is over
CloseRequest ==
  /\ pc \in {"done", "threw"}
  /\ ~res.finishPending
  /\ req' = NoReq
  /\ res' = NoRes
  /\ trace' = << >>
  /\ middlewarePromise' = "none"
  /\ authPromise' = "none"
  /\ pc' = "idle"
  /\ UNCHANGED << envVars, timerVars, config, now, rateVars, tokenStore, keyVars, storeVars >>

NextGate ==
  \/ NewRequest
  \/ CloseRequest
  \/ CorsStage
  \/ SecurityHeadersStage
  \/ EmitFinish
  \/ AwaitMiddleware
  \/ SizeLimitStage
  \/ ManagementSkip
  \/ HealthCheck
  \/ ActiveUsers
  \/ TokenEndpointsSkip
  \/ TokenEndpointsEnter
  \/ ApiKeyAuthStage
  \/ RateLimitStage
  \/ AwaitAuth
  \/ InjectTokens
  \/ TokenStatus
  \/ DeleteTokens
  \/ TokenNotFound
  \/ McpRequest

SpecGate == InitGate /\ [][NextGate]_vars

\* ------------------------------------------------------------- SpecOrigin
\* the request listener serving one request, for every set of allowed
\* origins the policy may hold
OriginSets == { {}, {"https://app"}, {"*"}, {"*", "https://app"} }

InitOrigin ==
  /\ config \in [ enabled : BOOLEAN,
                  apiKey : { GateSecret },
                  allowedOrigins : OriginSets,
                  rateLimit : { [ maxRequestsPerUser |-> 1,
                                  maxTokenInjectionsPerIp |-> 1,
                                  windowMs |-> MsPerSecond ] } ]
  /\ ValidConfig(config)
  /\ now = 0
  /\ RateIdle
  /\ StoreIdle
  /\ TimerIdle
  /\ EnvIdle
  /\ KeyIdle
  /\ req \in GateRequests
  /\ res = NoRes
  /\ trace = << >>
  /\ middlewarePromise = "pending"
  /\ authPromise = "none"
  /\ pc = "corsMiddleware"

NextOrigin ==
  \/ CloseRequest
  \/ CorsStage
  \/ SecurityHeadersStage
  \/ EmitFinish
  \/ AwaitMiddleware
  \/ SizeLimitStage
  \/ ManagementSkip
  \/ HealthCheck
  \/ ActiveUsers
  \/ TokenEndpointsSkip
  \/ TokenEndpointsEnter
  \/ ApiKeyAuthStage
  \/ RateLimitStage
  \/ AwaitAuth
  \/ InjectTokens
  \/ TokenStatus
  \/ DeleteTokens
  \/ TokenNotFound
  \/ McpRequest

SpecOrigin == InitOrigin /\ [][NextOrigin]_vars

\* ------------------------------------------------------------- SpecRoutes
\* the request listener serving requests that pass the gate, one after the
\* other, while the clock moves on between them: a second later the address
\* counter's window is still open and a far credential is still valid;
\* bufferMs later it is expired
RouteTimes == { 0, MsPerSecond, bufferMs, FarExpiry + MsPerSecond }

RouteCalls ==
  { << "GET", "/health", None >>,
    << "GET", "/api/users/active", None >>,
    << "POST", "/api/tokens", None >>,
    << "GET", "/api/tokens/u1/status", None >>,
    << "DELETE", "/api/tokens/u1", None >>,
    << "POST", "/mcp", None >>,
    << "POST", "/mcp", Some("") >>,
    << "POST", "/mcp", Some("u1") >> }

\* toolUserId is args.userId || args.user_id of the tool call the request
\* carries: '' when the arguments name no tenant
RouteRequests ==
  { [ method |-> c[1], path |-> c[2], origin |-> Some("https://app"),
      xApiKey |-> IF c[2] = "/health" \/ c[2] = "/mcp" THEN None
                  ELSE Some(GateSecret),
      authorization |-> None, contentLength |-> None, forwardedFor |-> None,
      remoteAddress |-> "ip1", toolUserId |-> c[3] ] : c \in RouteCalls }

InitRoutes ==
  /\ config \in [ enabled : BOOLEAN,
                  apiKey : { GateSecret },
                  allowedOrigins : { {"https://app"} },
                  rateLimit : { [ maxRequestsPerUser |-> 1,
                                  maxTokenInjectionsPerIp |-> MaxChecks,
                                  windowMs |-> MsPerSecond ] } ]
  /\ ValidConfig(config)
  /\ now = 0
  /\ RateIdle
  /\ StoreIdle
  /\ TimerIdle
  /\ EnvIdle
  /\ GateIdle
  /\ KeyIdle

\* the listener is called with a request
NewRouteRequest ==
  /\ pc = "idle"
  /\ req' \in RouteRequests
  /\ res' = NoRes
  /\ trace' = << >>
  /\ middlewarePromise' = "pending"
  /\ authPromise' = "none"
  /\ pc' = "corsMiddleware"
  /\ UNCHANGED << envVars, timerVars, config, now, rateVars, tokenStore, keyVars,
                  storeVars >>

\* POST /api/tokens: handleInjectTokens, the posted body kept for reference
PostTokens ==
  \E body \in InjectBodies :
    /\ InjectTokensBody(body)
    /\ storeOp' =
         [ op |-> "inject", user |-> body.userId.s, threw |-> ~body.json,
           tokens |-> Some(UserTokensOf(body)), flag |-> FALSE ]

\* the request is over
RouteClose ==
  /\ pc \in {"done", "threw"}
  /\ ~res.finishPending
  /\ req' = NoReq
  /\ res' = NoRes
  /\ trace' = << >>
  /\ middlewarePromise' = "none"
  /\ authPromise' = "none"
  /\ pc' = "idle"
  /\ storeOp' = NoStoreOp
  /\ UNCHANGED << envVars, timerVars, config, now, rateVars, tokenStore, keyVars >>

\* Date.now() moves on between two requests
RouteTick ==
  /\ pc = "idle"
  /\ \E t \in RouteTimes : t > now /\ now' = t
  /\ UNCHANGED << envVars, timerVars, config, rateVars, tokenStore, gateVars, keyVars,
                  storeVars >>

NextRoutes ==
  \/ NewRouteRequest
  \/ RouteClose
  \/ RouteTick
  \/ CorsStage
  \/ SecurityHeadersStage
  \/ EmitFinish
  \/ AwaitMiddleware
  \/ SizeLimitStage
  \/ ManagementSkip
  \/ HealthCheck
  \/ ActiveUsers
  \/ TokenEndpointsSkip
  \/ TokenEndpointsEnter
  \/ ApiKeyAuthStage
  \/ RateLimitStage
  \/ AwaitAuth
  \/ PostTokens
  \/ TokenStatus
  \/ DeleteTokens
  \/ McpRequest

SpecRoutes == InitRoutes /\ [][NextRoutes]_vars

\* ------------------------------------------------------------- SpecAuth
\* one request to a credential route under every combination of the
\* X-API-Key and Authorization headers
AuthCalls ==
  { << "POST", "/api/tokens" >>, << "GET", "/api/tokens/u1/status" >>,
    << "DELETE", "/api/tokens/u1" >>, << "GET", "/api/tokens/u1" >> }

\* X-API-Key: absent, empty, the secret, another key
AuthXApiKeyValues == { None, Some(<< >>), Some(GateSecret), Some(WrongKey) }

\* Authorization: absent, 'Bearer ' + the secret, 'Bearer ' + another key,
\* the secret without the prefix, 'Bearer ' alone
AuthAuthorizationValues ==
  { None, Some(<< BearerTok >> \o GateSecret), Some(<< BearerTok >> \o ShortKey),
    Some(GateSecret), Some(<< BearerTok >>) }

AuthRequests ==
  { [ method |-> c[1], path |-> c[2], origin |-> Some("https://app"),
      xApiKey |-> x, authorization |-> a, contentLength |-> None,
      forwardedFor |-> None, remoteAddress |-> "ip1", toolUserId |-> None ] :
    c \in AuthCalls, x \in AuthXApiKeyValues, a \in AuthAuthorizationValues }

InitAuth ==
  /\ config \in [ enabled : BOOLEAN,
                  apiKey : { GateSecret },
                  allowedOrigins : { {"https://app"} },
                  rateLimit : { [ maxRequestsPerUser |-> 1,
                                  maxTokenInjectionsPerIp |-> 1,
                                  windowMs |-> MsPerSecond ] } ]
  /\ ValidConfig(config)
  /\ now = 0
  /\ RateIdle
  /\ StoreIdle
  /\ TimerIdle
  /\ EnvIdle
  /\ KeyIdle
  /\ req \in AuthRequests
  /\ res = NoRes
  /\ trace = << >>
  /\ middlewarePromise = "pending"
  /\ authPromise = "none"
  /\ pc = "corsMiddleware"

NextAuth ==
  \/ CloseRequest
  \/ CorsStage
  \/ SecurityHeadersStage
  \/ EmitFinish
  \/ AwaitMiddleware
  \/ SizeLimitStage
  \/ ManagementSkip
  \/ TokenEndpointsEnter
  \/ ApiKeyAuthStage
  \/ RateLimitStage
  \/ AwaitAuth
  \/ InjectTokens
  \/ TokenStatus
  \/ DeleteTokens
  \/ TokenNotFound

SpecAuth == InitAuth /\ [][NextAuth]_vars

\* ------------------------------------------------------------- claims: gate
Handlers == {"handleHealthCheck", "handleActiveUsers", "handleInjectTokens",
             "handleTokenStatus", "handleDeleteTokens", "notFound", "mcp"}

InTrace(x) == \E i \in 1..Len(trace) : trace[i] = x
HandlerRuns == Cardinality({ i \in 1..Len(trace) : trace[i] \in Handlers })
InFlight == pc # "idle"

\* what a request asks for, stated on its headers
Preflight(r) == config.enabled /\ r.method = "OPTIONS"
OriginDenied(r) ==
  /\ config.enabled
  /\ r.method # "OPTIONS"
  /\ "*" \notin config.allowedOrigins
  /\ ~(IsSome(r.origin) /\ Val(r.origin) \in config.allowedOrigins)
Oversized(r) ==
  IsSome(r.contentLength) /\ Val(r.contentLength) > maxRequestSize
\* neither header carries the secret
KeyMissingOrWrong(r) ==
  /\ r.xApiKey # Some(config.apiKey)
  /\ r.authorization # Some(<< BearerTok >> \o config.apiKey)
\* the key the request presents is not the secret
KeyRejected(r) == config.enabled /\ ExtractApiKey(r) # config.apiKey
\* the counter of the request's address is over the quota
RateOver(r) ==
  LET entry == rateLimitStores.byIp[getClientIp(r)]
  IN  /\ config.enabled
      /\ IsSome(entry)
      /\ Val(entry).count > config.rateLimit.maxTokenInjectionsPerIp

\* C1 as stated: in enabled mode a credential-route request whose API key
\* is wrong or missing, and which the origin stage lets through, is answered
\* 401.
C1_BadKeyAnswered401 ==
  ( /\ pc = "done"
    /\ config.enabled
    /\ req.path \in TokenPaths
    /\ req.method # "OPTIONS"
    /\ req.origin = Some("https://app")
    /\ KeyMissingOrWrong(req) )
  => (res.headersSent /\ res.statusCode = 401)

\* C1 amended: in enabled mode a credential-route request whose API key is
\* wrong or missing reaches neither the rate-limit stage nor a handler, and
\* no rate counter is created or incremented while it is served; it is
\* answered 401 by the API-key stage unless the origin stage (204, 403) or
\* the payload-size check (413), which both run before the API-key stage,
\* has answered it first.
C1_BadKeyStopsAtAuth ==
  /\ [](( /\ InFlight
          /\ config.enabled
          /\ req.path \in TokenPaths
          /\ KeyMissingOrWrong(req) )
        => /\ ~InTrace("rateLimitTokenInjection")
           /\ HandlerRuns = 0
           /\ pc # "route"
           /\ InTrace("apiKeyAuth") =>
                (res.headersSent /\ res.statusCode = 401)
           /\ pc = "done" =>
                /\ res.headersSent
                /\ res.statusCode =
                     IF Preflight(req) THEN 204
                     ELSE IF OriginDenied(req) THEN 403
                     ELSE IF Oversized(req) THEN 413
                     ELSE 401)
  /\ [][( /\ InFlight
          /\ config.enabled
          /\ req.path \in TokenPaths
          /\ KeyMissingOrWrong(req) )
        => /\ rateLimitStores' = rateLimitStores
           /\ checks' = checks]_vars

C1_Witness ==
  /\ pc = "done"
  /\ config.enabled
  /\ req.path = "/api/tokens"
  /\ req.method = "POST"
  /\ req.xApiKey = Some(WrongKey)
  /\ req.authorization = None
  /\ res.statusCode = 401
  /\ trace = << "corsMiddleware", "securityHeaders", "sizeLimit",
                "apiKeyAuth" >>

\* C2 as stated: the API-key stage and the rate-limit stage come before the
\* payload-size stage, so on a credential route the payload-size stage has
\* run only for a request for which both of them have run.
C2_SpecOrder ==
  (InFlight /\ req.path \in TokenPaths /\ InTrace("sizeLimit")) =>
    /\ InTrace("apiKeyAuth")
    /\ InTrace("rateLimitTokenInjection")

\* C2 amended: on a credential route the stages run in the order Origin,
\* Security-headers, Payload-size, API-key, Rate-limit, Handler, and the
\* first stage of that order that denies determines the response.
C2_CodeOrder ==
  (pc = "done" /\ req.path \in TokenPaths) =>
    IF Preflight(req)
    THEN res.statusCode = 204 /\ trace = << "corsMiddleware" >>
    ELSE IF OriginDenied(req)
    THEN res.statusCode = 403 /\ trace = << "corsMiddleware" >>
    ELSE IF Oversized(req)
    THEN /\ res.statusCode = 413
         /\ trace = << "corsMiddleware", "securityHeaders", "sizeLimit" >>
    ELSE IF KeyRejected(req)
    THEN /\ res.statusCode = 401
         /\ trace = << "corsMiddleware", "securityHeaders", "sizeLimit",
                       "apiKeyAuth" >>
    ELSE IF RateOver(req)
    THEN /\ res.statusCode = 429
         /\ trace = << "corsMiddleware", "securityHeaders", "sizeLimit",
                       "apiKeyAuth", "rateLimitTokenInjection" >>
    ELSE /\ Len(trace) = 6
         /\ SubSeq(trace, 1, 5) =
              << "corsMiddleware", "securityHeaders", "sizeLimit",
                 "apiKeyAuth", "rateLimitTokenInjection" >>
         /\ trace[6] \in Handlers
         /\ res.statusCode \in {200, 400, 404}

C2_Witness ==
  /\ pc = "done"
  /\ config.enabled
  /\ req.path \in TokenPaths
  /\ ~OriginDenied(req)
  /\ Oversized(req)
  /\ KeyRejected(req)
  /\ res.statusCode = 413

\* C3: a stage either calls its continuation or sends a response, never
\* both and never neither; once a response has been sent no stage and no
\* handler runs for the request; a handler runs at most once; whenever the
\* 'finish' event is delivered.
C3_ShortCircuit ==
  /\ [](/\ HandlerRuns <= 1
        /\ \A i, j \in 1..Len(trace) : trace[i] = trace[j] => i = j)
  /\ [][(InFlight /\ res.headersSent) => (trace' = trace \/ pc' = "idle")]_vars
  /\ [][(trace' # trace /\ pc' # "idle") =>
          IF res'.headersSent
          THEN pc' \in {"awaitMiddleware", "awaitAuth", "done"}
          ELSE /\ ~(pc' = "awaitMiddleware" /\ middlewarePromise' = "pending")
               /\ ~(pc' = "awaitAuth" /\ authPromise' = "pending")
               /\ pc' # "done"]_vars

C3_Witness ==
  /\ pc = "done"
  /\ res.statusCode = 429
  /\ authPromise = "false"
  /\ ~res.finishPending
  /\ trace[Len(trace)] = "rateLimitTokenInjection"

\* C4: a request that declares more than maxRequestSize bytes is answered
\* 413 by the payload-size stage and no handler runs for it, a valid API
\* key included; a request that declares no size, or at most maxRequestSize,
\* passes the stage.
C4_PayloadLimit ==
  InFlight =>
    IF Oversized(req)
    THEN /\ HandlerRuns = 0
         /\ ~InTrace("apiKeyAuth")
         /\ InTrace("sizeLimit") => (pc = "done" /\ res.statusCode = 413)
    ELSE /\ res.statusCode # 413
         /\ InTrace("sizeLimit") => pc \notin {"sizeLimit", "awaitMiddleware"}
         /\ (InTrace("sizeLimit") /\ pc = "done") => Len(trace) > 3

C4_Witness ==
  /\ pc = "done"
  /\ config.enabled
  /\ req.path = "/api/tokens"
  /\ req.xApiKey = Some(config.apiKey)
  /\ Oversized(req)
  /\ res.statusCode = 413
  /\ HandlerRuns = 0

\* C6: in enabled mode the active-tenants endpoint answers 401 and lists no
\* tenant when the API key is missing or incorrect; only the exact secret
\* obtains the list.
C6_AdminKeyRequired ==
  ( /\ pc \in {"done", "threw"}
    /\ config.enabled
    /\ req.method = "GET"
    /\ req.path = "/api/users/active"
    /\ InTrace("sizeLimit")
    /\ ~Oversized(req) )
  => IF ExtractApiKey(req) = config.apiKey
     THEN res.statusCode = 200 /\ IsSome(res.users)
     ELSE res.statusCode = 401 /\ res.users = None

\* ------------------------------------------------------------- claims: key
\* C5: in enabled mode validateApiKey accepts a provided key if and only if
\* it equals the configured secret; keys of another length and keys of the
\* same length that differ in some position are rejected.
C5_ExactKeyOnly ==
  (config.enabled /\ IsSome(keyResult)) =>
    (Val(keyResult) <=> providedKey = config.apiKey)

C5_Witness ==
  /\ config.enabled
  /\ keyResult = Some(FALSE)
  /\ Len(providedKey) = Len(config.apiKey)
  /\ providedKey # config.apiKey

\* ------------------------------------------------------------- claims: rate
LimitOf(k) ==
  IF k[1] = "byIp" THEN config.rateLimit.maxTokenInjectionsPerIp
  ELSE config.rateLimit.maxRequestsPerUser

\* C7: within one window of a key at most limit checks are allowed: the
\* first limit checks of the window are allowed and every further check of
\* that window is rejected.
C7_WindowQuota ==
  /\ \A k \in RateKeys : admitted[k].n <= LimitOf(k)
  /\ rl.checked =>
       /\ rl.allowed <=> rl.count <= LimitOf(rl.key)
       /\ rl.allowed => admitted[rl.key].n = rl.count
       /\ ~rl.allowed => admitted[rl.key].n = LimitOf(rl.key)

C7_Witness ==
  /\ rl.checked
  /\ ~rl.allowed
  /\ LimitOf(rl.key) = MaxLimit
  /\ rl.count = MaxLimit + 1
  /\ admitted[rl.key].n = MaxLimit

\* C8: a check on a key whose counter is absent or whose window has passed
\* (now >= windowResetAt, the instant now = windowResetAt included) works on
\* a fresh counter: it is allowed, with count 1 and windowResetAt = now +
\* windowMs.
C8_FreshWindow ==
  (/\ rl.checked
   /\ IF IsSome(rl.prior) THEN rl.at >= Val(rl.prior).resetTime ELSE TRUE)
  => /\ rl.allowed
     /\ rl.count = 1
     /\ rl.reset = rl.at + config.rateLimit.windowMs

\* C9: a rejection advertises retryAfterSeconds = ceil((windowResetAt - now)
\* / 1000), and the next check on the key, made once the advertised delay
\* has passed, is allowed.
C9_RetryAfter ==
  rl.checked =>
    /\ ~rl.allowed =>
         rl.retryAfter = Some(Ceil(rl.reset - rl.at, MsPerSecond))
    /\ rl.waited => rl.allowed

\* C10: every outcome of a check reports limit, remaining and windowResetAt;
\* remaining is limit - count on allow and 0, with a retry-after value, on
\* reject; it is never negative and never more than limit - 1.
C10_Headers ==
  rl.checked =>
    LET entry == rateLimitStores[rl.key[1]][rl.key[2]]
    IN  /\ rl.limit = LimitOf(rl.key)
        /\ IsSome(entry) =>
             /\ rl.reset = Val(entry).resetTime
             /\ rl.count = Val(entry).count
        /\ rl.allowed =>
             /\ rl.remaining = rl.limit - rl.count
             /\ rl.retryAfter = None
             /\ rl.status = 0
        /\ ~rl.allowed =>
             /\ rl.remaining = 0
             /\ IsSome(rl.retryAfter)
             /\ rl.status = 429
        /\ rl.remaining >= 0
        /\ rl.remaining <= rl.limit - 1

C10_Witness ==
  /\ rl.checked
  /\ rl.allowed
  /\ rl.count = 2
  /\ rl.remaining = 1


\* ------------------------------------------------------------- claims: store
\* a put of the claim's failing kinds: no tenant id, a string field that is
\* empty or not a string, or an expiresAt that is 0, NaN or not a number
FailsValidation(userId, tokens) ==
  \/ userId.kind # "string"
  \/ userId.s = ""
  \/ \E f \in StringFields : tokens[f].kind # "string" \/ tokens[f].s = ""
  \/ tokens.expiresAt.kind # "number"
  \/ tokens.expiresAt.twice = 0

\* C15: a successful put(tenantId, credential) immediately followed by
\* get(tenantId) returns a credential equal in all five fields to the one
\* written, and leaves the entry's lastAccessed at the time of the read,
\* which is not before the write time.
C15_PutThenGet ==
  [][( /\ storeOp.op = "put"
       /\ ~storeOp.threw
       /\ storeOp'.op = "get"
       /\ storeOp'.user = storeOp.user )
     => /\ storeOp'.tokens = storeOp.tokens
        /\ IsSome(tokenStore'[storeOp.user])
        /\ Val(tokenStore'[storeOp.user]).tokens = Val(storeOp.tokens)
        /\ Val(tokenStore'[storeOp.user]).lastAccessed = now
        /\ Val(tokenStore'[storeOp.user]).lastAccessed
             >= Val(tokenStore[storeOp.user]).lastUpdated]_vars

C15_Witness ==
  /\ storeOp.op = "get"
  /\ storeOp.user = "u1"
  /\ storeOp.tokens = Some(OtherTokens)
  /\ Val(tokenStore["u1"]).lastUpdated = bufferMs
  /\ Val(tokenStore["u1"]).lastAccessed = STALE_TOKEN_THRESHOLD_MS

\* C16: a put that fails validation raises an error and performs no
\* mutation: the store, an existing entry of that tenant and its stamps
\* included, is the same before and after the call.
C16_FailedPutNoMutation ==
  /\ [](\A c \in PutInputs :
          FailsValidation(c[1], c[2]) =>
            /\ setUserTokensThrows(c[1], c[2])
            /\ setUserTokens(tokenStore, c[1], c[2], now) = tokenStore)
  /\ [][(storeOp'.op = "put" /\ storeOp'.threw)
          => tokenStore' = tokenStore]_vars

C16_Witness ==
  /\ storeOp.op = "put"
  /\ storeOp.threw
  /\ storeOp.user = "u1"
  /\ IsSome(tokenStore["u1"])
  /\ Val(tokenStore["u1"]).lastUpdated < now

\* C18: a successful put(tenantId, credential) replaces the tenant's entry
\* wholesale, no field of the old credential surviving, stamps lastUpdated =
\* lastAccessed = now and leaves every other tenant's entry as it was; the
\* store holds at most one entry per tenant.
C18_PutReplaces ==
  [][(storeOp'.op = "put" /\ ~storeOp'.threw /\ now' = now)
     => /\ storeOp'.user \in DOMAIN tokenStore'
        /\ tokenStore'[storeOp'.user] =
             Some([ tokens |-> Val(storeOp'.tokens),
                    lastUpdated |-> now, lastAccessed |-> now ])
        /\ \A u \in DOMAIN tokenStore' \ { storeOp'.user } :
             tokenStore'[u] = tokenStore[u]
        /\ DOMAIN tokenStore' = DOMAIN tokenStore]_vars

C18_Witness ==
  /\ storeOp.op = "put"
  /\ ~storeOp.threw
  /\ storeOp.user = "u1"
  /\ now = bufferMs
  /\ tokenStore["u1"] =
       Some([ tokens |-> BaseTokens, lastUpdated |-> bufferMs,
              lastAccessed |-> bufferMs ])
  /\ IsSome(tokenStore["u2"])
  /\ Val(tokenStore["u2"]).tokens = OtherTokens

\* C19: for every entry lastAccessed >= lastUpdated, and while an entry
\* exists its lastAccessed never decreases, whatever operations are made
\* under the non-decreasing clock.
C19_LastAccessed ==
  /\ [](\A u \in DOMAIN tokenStore :
          IsSome(tokenStore[u]) =>
            /\ Val(tokenStore[u]).lastAccessed >= Val(tokenStore[u]).lastUpdated
            /\ Val(tokenStore[u]).lastAccessed <= now)
  /\ [][\A u \in DOMAIN tokenStore :
          (IsSome(tokenStore[u]) /\ IsSome(tokenStore'[u])) =>
            Val(tokenStore'[u]).lastAccessed
              >= Val(tokenStore[u]).lastAccessed]_vars

C19_Witness ==
  /\ storeOp.op = "status"
  /\ storeOp.user = "u2"
  /\ IsSome(tokenStore["u2"])
  /\ Val(tokenStore["u2"]).lastUpdated = bufferMs
  /\ Val(tokenStore["u2"]).lastAccessed = STALE_TOKEN_THRESHOLD_MS

\* C20: isExpired(credential) is true if and only if expiresAt <= now +
\* bufferMs, with bufferMs five minutes: expiresAt = now + bufferMs is
\* expired and expiresAt = now + bufferMs + 1 is not.
C20_IsExpired ==
  [][(storeOp'.op = "isExpired" /\ now' = now)
     => LET e == Val(storeOp'.tokens).expiresAt
        IN  /\ storeOp'.flag <=> e.twice <= 2 * (now + 5 * 60 * 1000)
            /\ e = Num(now + 5 * 60 * 1000) => storeOp'.flag
            /\ e = Num(now + 5 * 60 * 1000 + 1) => ~storeOp'.flag]_vars

C20_Witness ==
  /\ storeOp.op = "isExpired"
  /\ now = bufferMs
  /\ Val(storeOp.tokens).expiresAt = Num(now + bufferMs)
  /\ storeOp.flag

\* C21: purgeStale run at time now removes exactly the entries whose
\* lastAccessed < now - staleThresholdMs (24 hours) and leaves every other
\* entry, its credential and both stamps, untouched; an entry whose
\* lastAccessed equals the threshold survives.
C21_PurgeExact ==
  [][(storeOp'.op = "purge" /\ now' = now)
     => /\ DOMAIN tokenStore' = DOMAIN tokenStore
        /\ \A u \in DOMAIN tokenStore :
             IF /\ IsSome(tokenStore[u])
                /\ Val(tokenStore[u]).lastAccessed
                     < now - 24 * 60 * 60 * 1000
             THEN tokenStore'[u] = None
             ELSE tokenStore'[u] = tokenStore[u]
        /\ \A u \in DOMAIN tokenStore :
             ( /\ IsSome(tokenStore[u])
               /\ Val(tokenStore[u]).lastAccessed = now - 24 * 60 * 60 * 1000 )
             => tokenStore'[u] = tokenStore[u]
        /\ storeOp'.flag <=> tokenStore' # tokenStore]_vars

C21_Witness ==
  /\ storeOp.op = "purge"
  /\ storeOp.flag
  /\ now = STALE_TOKEN_THRESHOLD_MS + bufferMs
  /\ tokenStore["u1"] = None
  /\ tokenStore["u2"] =
       Some([ tokens |-> BaseTokens, lastUpdated |-> 0,
              lastAccessed |-> bufferMs ])

\* C30: put wins over purgeStale for the same tenant in either order: a
\* purgeStale that runs at a time p after a put made at time tau, with
\* p - tau <= staleThresholdMs, leaves the entry as it is, so the entry is
\* present and holds the credential written by the put; and a put made after
\* a purgeStale leaves its entry in the store.
C30_PutWins ==
  /\ [][(storeOp'.op = "purge" /\ now' = now)
         => \A u \in DOMAIN tokenStore :
              ( /\ IsSome(tokenStore[u])
                /\ now - Val(tokenStore[u]).lastUpdated
                     <= 24 * 60 * 60 * 1000 )
              => /\ IsSome(tokenStore'[u])
                 /\ Val(tokenStore'[u]).tokens = Val(tokenStore[u]).tokens
                 /\ Val(tokenStore'[u]).lastUpdated
                      = Val(tokenStore[u]).lastUpdated]_vars
  /\ [][(storeOp.op = "purge" /\ storeOp'.op = "put" /\ ~storeOp'.threw)
         => /\ IsSome(tokenStore'[storeOp'.user])
            /\ Val(tokenStore'[storeOp'.user]).tokens = Val(storeOp'.tokens)]_vars

C30_Witness ==
  /\ storeOp.op = "purge"
  /\ storeOp.flag
  /\ now = STALE_TOKEN_THRESHOLD_MS + bufferMs
  /\ tokenStore["u2"] = None
  /\ tokenStore["u1"] =
       Some([ tokens |-> OtherTokens, lastUpdated |-> bufferMs,
              lastAccessed |-> bufferMs ])

\* ------------------------------------------------------------- claims: sweeps
\* the provider's sweep task is scheduled in a live process
SweepRunning == process # "exited" /\ IsSome(cleanupInterval)
AccessTimes == { k * SweepTickMs : k \in 0..MaxAccessTicks }

\* C22: the credential sweep runs once when the store is created and then
\* on every interval of 30 minutes; while the sweep task is running, an
\* entry exists no later than staleThresholdMs plus one interval after its
\* last access, and an entry that is not read or written again is
\* eventually removed.
C22_SweepSchedule ==
  /\ [][(~instance /\ instance')
         => /\ storeOp'.op = "purge"
            /\ cleanupInterval' = Some(now + 30 * 60 * 1000)]_vars
  /\ [][(instance /\ IsSome(cleanupInterval')
            /\ cleanupInterval' # cleanupInterval)
         => /\ cleanupInterval = Some(now)
            /\ cleanupInterval' = Some(now + 30 * 60 * 1000)
            /\ storeOp'.op = "purge"
            /\ \A u \in Users :
                 IsSome(tokenStore'[u]) <=>
                   /\ IsSome(tokenStore[u])
                   /\ Val(tokenStore[u]).lastAccessed
                        >= now - 24 * 60 * 60 * 1000]_vars
  /\ [](SweepRunning =>
          /\ Val(cleanupInterval) >= now
          /\ Val(cleanupInterval) <= now + 30 * 60 * 1000
          /\ \A u \in Users :
               IsSome(tokenStore[u]) =>
                 now <= Val(tokenStore[u]).lastAccessed
                          + 24 * 60 * 60 * 1000 + 30 * 60 * 1000)
  /\ \A u \in Users : \A a \in AccessTimes :
       ( /\ SweepRunning
         /\ IsSome(tokenStore[u])
         /\ Val(tokenStore[u]).lastAccessed = a )
       ~> ( \/ ~SweepRunning
            \/ ~IsSome(tokenStore[u])
            \/ Val(tokenStore[u]).lastAccessed # a )

\* a sweep removes, at the last instant the bound allows, an entry last
\* accessed half an interval after the instant 0
C22_Witness ==
  /\ storeOp.op = "purge"
  /\ storeOp.flag
  /\ SweepRunning
  /\ now = SweepTickMs + STALE_TOKEN_THRESHOLD_MS + CLEANUP_INTERVAL_MS
  /\ cleanupInterval = Some(now + CLEANUP_INTERVAL_MS)
  /\ \A u \in Users : tokenStore[u] = None

\* a timer of a live process is pending
Scheduled(handle) == process # "exited" /\ IsSome(handle)

\* C23: both periodic sweep tasks, the credential-store sweep and the
\* rate-counter sweep, are stopped by graceful shutdown: once the signal
\* listeners have run (SIGTERM or SIGINT), no sweep task remains scheduled
\* and no sweep runs again.
C23_SweepsStopped ==
  /\ [](process # "running" =>
          /\ ~Scheduled(cleanupInterval)
          /\ ~Scheduled(rateCleanupTimer))
  /\ [][process # "running" =>
          /\ rateCleanupTimer' = rateCleanupTimer
          /\ cleanupInterval' = cleanupInterval]_vars

\* ------------------------------------------------------------- SpecPort
\* getOAuthCallbackPort applied to every value of OAUTH_CALLBACK_PORT. A
\* string is a sequence of one-character strings.
DecimalDigits == { "0", "1", "2", "3", "4", "5", "6", "7", "8", "9" }

DigitValue(c) ==
  CASE c = "0" -> 0 [] c = "1" -> 1 [] c = "2" -> 2 [] c = "3" -> 3
    [] c = "4" -> 4 [] c = "5" -> 5 [] c = "6" -> 6 [] c = "7" -> 7
    [] c = "8" -> 8 [] c = "9" -> 9

\* the characters the values are made of: digits, a letter, a sign, a blank
PortChars == { "0", "5", "6", "a", "-", " " }

WhiteSpace == { " " }

MaxPort == 65535

\* String.prototype.trim
RECURSIVE TrimStart(_)
TrimStart(s) ==
  IF s # << >> /\ Head(s) \in WhiteSpace THEN TrimStart(Tail(s)) ELSE s

RECURSIVE TrimEnd(_)
TrimEnd(s) ==
  IF s # << >> /\ s[Len(s)] \in WhiteSpace
  THEN TrimEnd(SubSeq(s, 1, Len(s) - 1))
  ELSE s

trim(s) == TrimEnd(TrimStart(s))

\* /^\d+/.test(s): the pattern without its end anchor
DigitsOnlyPrefix(s) == s # << >> /\ Head(s) \in DecimalDigits

\* /^\d+$/.test(s)
DigitsOnly(s) == s # << >> /\ \A i \in 1..Len(s) : s[i] \in DecimalDigits

\* the length of the longest prefix of s made of decimal digits
RECURSIVE DigitPrefixLen(_)
DigitPrefixLen(s) ==
  IF s # << >> /\ Head(s) \in DecimalDigits
  THEN 1 + DigitPrefixLen(Tail(s))
  ELSE 0

\* the number a string of decimal digits denotes
RECURSIVE DecimalValue(_)
DecimalValue(s) ==
  IF s = << >> THEN 0
  ELSE 10 * DecimalValue(SubSeq(s, 1, Len(s) - 1)) + DigitValue(s[Len(s)])

\* parseInt(s, 10): leading white space is skipped, a sign is read, then the
\* longest run of digits; NaN when there is no digit
parseInt(s) ==
  LET t == TrimStart(s)
      signed == t # << >> /\ Head(t) \in { "-", "+" }
      body == IF signed THEN Tail(t) ELSE t
      n == DigitPrefixLen(body)
      magnitude == DecimalValue(SubSeq(body, 1, n))
  IN  IF n = 0 THEN NaN
      ELSE IF signed /\ Head(t) = "-" THEN Num(0 - magnitude)
      ELSE Num(magnitude)

PortThrows == [ threw |-> TRUE, value |-> Undefined ]
PortReturns(v) == [ threw |-> FALSE, value |-> v ]

\* port is process.env.OAUTH_CALLBACK_PORT: a string, if set
getOAuthCallbackPort(port) ==
  IF IsSome(port) /\ Val(port) # << >> /\ trim(Val(port)) # << >>
  THEN IF ~DigitsOnly(trim(Val(port))) THEN PortThrows
       ELSE LET parsed == parseInt(Val(port))
            IN  IF /\ parsed.kind = "number"
                   /\ (parsed.twice < 2 * 1 \/ parsed.twice > 2 * MaxPort)
                THEN PortThrows
                ELSE PortReturns(parsed)
  ELSE PortReturns(Undefined)

PortEnvs == { None } \cup { Some(v) : v \in StringsUpTo(PortChars, MaxPortLen) }

InitPort ==
  /\ config = [ enabled |-> FALSE,
                apiKey |-> [ i \in 1..MinApiKeyLen |-> 1 ],
                allowedOrigins |-> {},
                rateLimit |-> [ maxRequestsPerUser |-> 1,
                                maxTokenInjectionsPerIp |-> 1,
                                windowMs |-> MsPerSecond ] ]
  /\ now = 0
  /\ RateIdle
  /\ StoreIdle
  /\ TimerIdle
  /\ GateIdle
  /\ KeyIdle
  /\ env \in PortEnvs
  /\ portResult = None

GetOAuthCallbackPort ==
  /\ portResult = None
  /\ portResult' = Some(getOAuthCallbackPort(env))
  /\ UNCHANGED << env, timerVars, config, now, rateVars, tokenStore, gateVars,
                  keyVars, storeVars >>

NextPort == GetOAuthCallbackPort

SpecPort == InitPort /\ [][NextPort]_vars

\* ------------------------------------------------------------- claims: configuration
\* C29 as stated: getOAuthCallbackPort returns undefined when
\* OAUTH_CALLBACK_PORT is unset or empty, returns the integer value when the
\* variable consists only of decimal digits and the value is in 1..65535, and
\* throws for every other value.
C29_PortStrict ==
  IsSome(portResult) =>
    LET r == Val(portResult)
    IN  IF env = None \/ env = Some(<< >>)
        THEN r = PortReturns(Undefined)
        ELSE IF /\ \A i \in 1..Len(Val(env)) : Val(env)[i] \in DecimalDigits
                /\ DecimalValue(Val(env)) \in 1..65535
        THEN r = PortReturns(Num(DecimalValue(Val(env))))
        ELSE r.threw

\* C29, amended: white space around the value is ignored. The result is
\* undefined when the variable is unset, empty or blank; the integer value
\* when the value without its surrounding white space consists only of
\* decimal digits and denotes a number in 1..65535; a throw for every other
\* value.
C29_PortTrimmed ==
  IsSome(portResult) =>
    LET r == Val(portResult)
        inner == IF IsSome(env) THEN trim(Val(env)) ELSE << >>
    IN  IF inner = << >>
        THEN r = PortReturns(Undefined)
        ELSE IF /\ \A i \in 1..Len(inner) : inner[i] \in DecimalDigits
                /\ DecimalValue(inner) \in 1..65535
        THEN r = PortReturns(Num(DecimalValue(inner)))
        ELSE r.threw

\* a port written with a leading blank is returned
C29_Witness ==
  /\ env = Some(<< " ", "5", "0", "6", "0" >>)
  /\ portResult = Some(PortReturns(Num(5060)))

\* -------------------------------------------------------------- SpecTouch
\* The readers of the provider side by side: getUserTokens and
\* hasValidTokens called directly, the status route and the tool call of an
\* MCP request, with setUserTokens, the injection route and the sweep, under
\* a clock that passes the stale threshold
TouchTimes ==
  { 0, STALE_TOKEN_THRESHOLD_MS, STALE_TOKEN_THRESHOLD_MS + bufferMs }

TouchCalls ==
  { << "POST", "/api/tokens", None >>,
    << "GET", "/api/tokens/u1/status", None >>,
    << "POST", "/mcp", Some("u1") >> }

TouchRequests ==
  { r \in RouteRequests :
      << r.method, r.path, r.toolUserId >> \in TouchCalls }

InitTouch ==
  /\ config = [ enabled |-> TRUE,
                apiKey |-> GateSecret,
                allowedOrigins |-> {"https://app"},
                rateLimit |-> [ maxRequestsPerUser |-> 1,
                                maxTokenInjectionsPerIp |-> 2,
                                windowMs |-> MsPerSecond ] ]
  /\ now = 0
  /\ RateIdle
  /\ StoreIdle
  /\ TimerIdle
  /\ EnvIdle
  /\ GateIdle
  /\ KeyIdle

\* the listener is called with a request
NewTouchRequest ==
  /\ NewRouteRequest
  /\ req' \in TouchRequests

\* setUserTokens called directly, for the other tenant
TouchPut ==
  /\ tokenStore' = setUserTokens(tokenStore, Str("u2"), BaseTokens, now)
  /\ storeOp' =
       [ op |-> "put", user |-> "u2", threw |-> FALSE,
         tokens |-> Some(BaseTokens), flag |-> FALSE ]
  /\ UNCHANGED << envVars, timerVars, config, now, rateVars, gateVars,
                  keyVars >>

\* Date.now() moves on
TouchTick ==
  /\ \E t \in TouchTimes : t > now /\ now' = t
  /\ UNCHANGED << envVars, timerVars, config, rateVars, tokenStore, gateVars,
                  keyVars, storeVars >>

NextTouch ==
  \/ NewTouchRequest
  \/ RouteClose
  \/ TouchTick
  \/ CorsStage
  \/ SecurityHeadersStage
  \/ EmitFinish
  \/ AwaitMiddleware
  \/ SizeLimitStage
  \/ ManagementSkip
  \/ TokenEndpointsSkip
  \/ TokenEndpointsEnter
  \/ ApiKeyAuthStage
  \/ RateLimitStage
  \/ AwaitAuth
  \/ PostTokens
  \/ TokenStatus
  \/ McpRequest
  \/ TouchPut
  \/ Get
  \/ HasValidTokens
  \/ CleanupStaleTokens

SpecTouch == InitTouch /\ [][NextTouch]_vars

\* ------------------------------------------------------------- claims: routes
\* the step in which the handler named h answers the request
Handled(h) == trace' = Append(trace, h)

\* C24: remove(tenantId) deletes the entry if present and returns true
\* exactly when an entry was removed; removing an absent tenant returns
\* false and leaves the store unchanged, so a second remove changes
\* nothing; the DELETE credential endpoint answers 200 with success:true
\* whether or not the tenant had an entry.
C24_RemoveIdempotent ==
  /\ [](\A u \in Users \cup { "u3" } :
          LET after == removeUserTokens(tokenStore, u)
          IN  /\ ~IsSome(EntryOf(after, u))
              /\ \A v \in DOMAIN tokenStore \ { u } : after[v] = tokenStore[v]
              /\ removeUserTokensResult(tokenStore, u)
                   <=> IsSome(EntryOf(tokenStore, u))
              /\ removeUserTokensResult(tokenStore, u) <=> after # tokenStore
              /\ ~removeUserTokensResult(after, u)
              /\ removeUserTokens(after, u) = after)
  /\ [][Handled("handleDeleteTokens")
         => /\ res'.headersSent
            /\ res'.statusCode = 200
            /\ IsSome(res'.body)
            /\ Val(res'.body).success
            /\ Val(res'.body).hasTokens <=> IsSome(tokenStore["u1"])
            /\ tokenStore'["u1"] = None
            /\ \A v \in Users \ { "u1" } : tokenStore'[v] = tokenStore[v]]_vars

\* a DELETE for a tenant without an entry, answered with success
C24_Witness ==
  /\ pc = "done"
  /\ InTrace("handleDeleteTokens")
  /\ res.statusCode = 200
  /\ res.body = Some([ success |-> TRUE, hasTokens |-> FALSE, valid |-> FALSE ])
  /\ now = MsPerSecond
  /\ tokenStore["u1"] = None

\* C25: an injection of a well-formed credential that is already expired
\* (expiresAt <= now) or expires within the minimum buffer is answered 400
\* and leaves the store unchanged: the credential stored before for the
\* tenant is still present, unmodified, and status still reports it valid.
C25_RejectedInjectKeepsStore ==
  /\ [][Handled("handleInjectTokens")
         => LET posted == Val(storeOp'.tokens)
                e == posted.expiresAt
            IN  ( /\ ~storeOp'.threw
                  /\ storeOp'.user # ""
                  /\ e.kind = "number"
                  /\ e.twice % 2 = 0
                  /\ e.twice > 0
                  /\ \/ e.twice \div 2 <= now
                     \/ (e.twice \div 2) - now < 5 * 60 * 1000 )
                => /\ res'.statusCode = 400
                   /\ tokenStore' = tokenStore
                   /\ TokenStatusBody(getUserTokensResult(tokenStore', "u1"),
                                      now)
                        = TokenStatusBody(getUserTokensResult(tokenStore, "u1"),
                                          now)]_vars
  /\ [][Handled("handleTokenStatus")
         => res'.body =
              Some([ success |-> TRUE,
                     hasTokens |-> IsSome(tokenStore["u1"]),
                     valid |->
                       IF IsSome(tokenStore["u1"])
                       THEN Val(tokenStore["u1"]).tokens.expiresAt.twice
                              > 2 * (now + 5 * 60 * 1000)
                       ELSE FALSE ])]_vars

\* an expired credential is posted for a tenant whose stored credential is
\* valid
C25_Witness ==
  /\ pc = "done"
  /\ storeOp.op = "inject"
  /\ storeOp.user = "u1"
  /\ Val(storeOp.tokens).expiresAt = Num(1)
  /\ now = MsPerSecond
  /\ res.statusCode = 400
  /\ IsSome(tokenStore["u1"])
  /\ Val(tokenStore["u1"]).lastUpdated = 0
  /\ TokenStatusBody(getUserTokensResult(tokenStore, "u1"), now).valid

\* C26: serving a health or an active-tenants request leaves the credential
\* store (the entries, their credentials, lastUpdated and lastAccessed) and
\* the rate counters as they were.
C26_ReportingReadOnly ==
  [][(Handled("handleHealthCheck") \/ Handled("handleActiveUsers"))
     => /\ tokenStore' = tokenStore
        /\ rateLimitStores' = rateLimitStores]_vars

\* C27: a lookup that misses returns the empty result and leaves the store
\* as it is, for the empty tenant id and for a tenant without an entry; the
\* status endpoint answers 200 with hasTokens false and valid false for a
\* tenant without an entry.
C27_LookupMiss ==
  /\ [](\A u \in Users \cup { "", "u3" } :
          (u = "" \/ ~IsSome(EntryOf(tokenStore, u))) =>
            /\ getUserTokensResult(tokenStore, u) = None
            /\ getUserTokens(tokenStore, u, now) = tokenStore)
  /\ [][(Handled("handleTokenStatus") /\ ~IsSome(tokenStore["u1"]))
         => /\ res'.headersSent
            /\ res'.statusCode = 200
            /\ res'.body = Some([ success |-> TRUE, hasTokens |-> FALSE,
                                  valid |-> FALSE ])
            /\ tokenStore' = tokenStore]_vars

\* the status of a tenant whose credential was removed
C27_Witness ==
  /\ pc = "done"
  /\ InTrace("handleTokenStatus")
  /\ res.statusCode = 200
  /\ res.body = Some([ success |-> TRUE, hasTokens |-> FALSE, valid |-> FALSE ])
  /\ now = bufferMs
  /\ tokenStore["u1"] = None

\* C28: in multi-tenant mode a tool invocation runs the tool handler if and
\* only if a tenant id is supplied and the store holds a credential of that
\* tenant that is not expired (now < expiresAt); otherwise it fails and no
\* handler runs.
C28_ToolNeedsValidTokens ==
  ( /\ pc = "done"
    /\ config.enabled
    /\ InTrace("mcp")
    /\ IsSome(req.toolUserId)
    /\ res.statusCode = 200 )
  => LET u == Val(req.toolUserId)
     IN  IsSome(res.tool) <=>
           /\ u # ""
           /\ IsSome(EntryOf(tokenStore, u))
           /\ Val(tokenStore[u]).tokens.expiresAt.twice > 2 * now

Present == { u \in Users : IsSome(tokenStore[u]) }

\* C32: stats() over a reachable store returns totalTenants = the number of
\* entries, activeTenants = the number of entries accessed within the last
\* hour, expiredCount = the number of entries isExpired holds for, oldest and
\* newest = the least and the greatest lastUpdated; the two age fields are
\* null exactly when the store is empty; activeTenants <= totalTenants,
\* expiredCount <= totalTenants and oldest <= newest.
C32_StatsExact ==
  [][(storeOp'.op = "stats" /\ now' = now) =>
    LET st == Val(storeOp'.tokens)
        hour == 60 * 60 * 1000
    IN  /\ st.totalUsers = Cardinality(Present)
        /\ st.activeUsers =
             Cardinality({ u \in Present :
                             now - Val(tokenStore[u]).lastAccessed <= hour })
        /\ st.expiredTokens =
             Cardinality({ u \in Present :
                             isTokenExpired(Val(tokenStore[u]).tokens, now) })
        /\ (st.oldestToken = None) <=> (Present = {})
        /\ (st.newestToken = None) <=> (Present = {})
        /\ Present # {} =>
             /\ \E u \in Present :
                  Val(st.oldestToken) = Val(tokenStore[u]).lastUpdated
             /\ \E u \in Present :
                  Val(st.newestToken) = Val(tokenStore[u]).lastUpdated
             /\ \A u \in Present :
                  /\ Val(st.oldestToken) <= Val(tokenStore[u]).lastUpdated
                  /\ Val(tokenStore[u]).lastUpdated <= Val(st.newestToken)
             /\ Val(st.oldestToken) <= Val(st.newestToken)
        /\ st.activeUsers <= st.totalUsers
        /\ st.expiredTokens <= st.totalUsers]_vars

\* two entries of different ages, one of them expired and no longer active
C32_Witness ==
  /\ storeOp.op = "stats"
  /\ Val(storeOp.tokens).totalUsers = 2
  /\ Val(storeOp.tokens).activeUsers = 1
  /\ Val(storeOp.tokens).expiredTokens = 1
  /\ Val(storeOp.tokens).oldestToken = Some(0)
  /\ Val(storeOp.tokens).newestToken = Some(STALE_TOKEN_THRESHOLD_MS)

\* ------------------------------------------------------------- claims: rate sweep
\* what a check made at the instant t on the stored entry entryOpt stores
\* and reports
CheckResult(entryOpt, t, limit) ==
  LET entry == TouchedEntry(entryOpt, t, config.rateLimit.windowMs)
      over == LimitExceeded(entry.count, limit)
  IN  [ stored |-> entry,
        allowed |-> ~over,
        limit |-> limit,
        remaining |-> IF over THEN 0 ELSE Remaining(entry.count, limit),
        reset |-> entry.resetTime ]

\* the instants from now on
LaterTimes == { now + j * TickMs : j \in 0..MaxTicks }

\* C33: the sweep deletes exactly the counters whose window has expired
\* (resetTime < now), and it is transparent: in every reachable state, for
\* every key and every later instant, a check made after a sweep of the
\* current state stores and reports (allowed, limit, remaining, reset) what
\* it stores and reports without the sweep; so the two runs agree on that
\* key from that check on.
C33_SweepTransparent ==
  /\ [][(rateLimitStores' # rateLimitStores /\ checks' = checks)
         => \A s \in DOMAIN rateLimitStores :
              \A k \in DOMAIN rateLimitStores[s] :
                LET before == rateLimitStores[s][k]
                    after == rateLimitStores'[s][k]
                IN  IF IsSome(before)
                    THEN IF Val(before).resetTime < now
                         THEN after = None
                         ELSE after = before
                    ELSE after = None]_vars
  /\ [](\A s \in DOMAIN rateLimitStores :
          \A k \in DOMAIN rateLimitStores[s] :
            \A t \in LaterTimes :
              \A limit \in 1..MaxLimit :
                CheckResult(SweptStore(rateLimitStores[s], now)[k], t, limit)
                  = CheckResult(rateLimitStores[s][k], t, limit))

\* a counter was swept and its key checked again: the check finds no entry
\* and starts a window, as it would have on the expired entry
C33_Witness ==
  /\ config.enabled
  /\ checks = 2
  /\ rl.checked
  /\ rl.key = << "byIp", "ip1" >>
  /\ rl.prior = None
  /\ rl.count = 1
  /\ rl.at = now
  /\ now > config.rateLimit.windowMs
  /\ \A k \in RateKeys \ { rl.key } : admitted[k].n = 0 /\ rejected[k] = None

\* ------------------------------------------------------------- claims: policy
\* C34: the thresholds the core applies are the ones the policy supplies
\* and the metrics answer echoes. A sweep removes exactly the entries whose
\* lastAccessed is older than the reported cleanup.staleThresholdMs and is
\* next due cleanup.intervalMs later; a credential is classified expired
\* exactly when it expires within the policy's expiry buffer, the one used
\* to admit injected credentials.
C34_PolicyApplied ==
  /\ [][(storeOp'.op = "purge" /\ now' = now)
         => /\ \A u \in Users :
                 tokenStore'[u] =
                   IF IsSome(tokenStore[u])
                   THEN IF Val(tokenStore[u]).lastAccessed
                             < now - config.cleanup.staleThresholdMs
                        THEN None
                        ELSE tokenStore[u]
                   ELSE None
            /\ cleanupInterval' = Some(now + config.cleanup.intervalMs)]_vars
  /\ [][(storeOp'.op = "inject" /\ now' = now)
         => LET tokens == Val(storeOp'.tokens)
            IN  isTokenExpired(tokens, now)
                  <=> tokens.expiresAt.twice
                        <= 2 * (now + config.tokenValidation.minExpiryBufferMs)]_vars
  /\ [][(res'.headersSent /\ IsSome(res'.body))
         => /\ Val(res'.body).cleanup = config.cleanup
            /\ Val(res'.body).tokenValidation = config.tokenValidation]_vars

\* ------------------------------------------------------------- claims: isolation
\* C35: operations are isolated per key. A put, get or remove on one tenant
\* leaves the entry of every other tenant and every rate counter unchanged;
\* a rate-limit check changes the counter of its own key in its own
\* collection (the tenant collection for the tenant quota, the address
\* collection for the address quota) and no other counter, also not the
\* counter of the same string in the other collection, and no entry of the
\* store.
C35_KeyIsolation ==
  /\ [][(tokenStore' # tokenStore)
         => /\ storeOp'.op \in { "put", "get", "remove" }
            /\ \A v \in Users \ { storeOp'.user } :
                 tokenStore'[v] = tokenStore[v]
            /\ rateLimitStores' = rateLimitStores]_vars
  /\ [][(checks' = checks + 1)
         => LET coll == IF rl'.limit = config.rateLimit.maxRequestsPerUser
                        THEN "byUser"
                        ELSE "byIp"
                own == << coll, rl'.key[2] >>
            IN  /\ rateLimitStores'[own[1]][own[2]]
                     # rateLimitStores[own[1]][own[2]]
                /\ \A k \in NameKeys \ { own } :
                     rateLimitStores'[k[1]][k[2]] = rateLimitStores[k[1]][k[2]]
                /\ tokenStore' = tokenStore]_vars

\* the string u1 counted twice as an address and once, apart from that, as
\* a tenant, beside a stored credential of u1 and none of u2
C35_Witness ==
  /\ IsSome(rateLimitStores.byIp["u1"])
  /\ IsSome(rateLimitStores.byUser["u1"])
  /\ Val(rateLimitStores.byIp["u1"]).count = 2
  /\ Val(rateLimitStores.byUser["u1"]).count = 1
  /\ rateLimitStores.byIp["u2"] = None
  /\ rateLimitStores.byUser["u2"] = None
  /\ IsSome(tokenStore["u1"])
  /\ tokenStore["u2"] = None
  /\ storeOp.op = "remove"
  /\ storeOp.user = "u2"
  /\ storeOp.flag

\* ------------------------------------------------------------- claims: address quota
\* the requests admitted past the rate-limit stage in the current window of
\* the counter the address ip is counted under
AdmittedUnder(ip) ==
  IF admitted[<< "byIp", ip >>].reset > now
  THEN admitted[<< "byIp", ip >>].n
  ELSE 0

\* C36: within one rate-limit window the credential-route requests of one
\* client network address that are admitted past the rate-limit stage never
\* exceed maxTokenInjectionsPerIp, whatever headers the client sends. Every
\* request served comes from the socket address ip1; with X-Forwarded-For
\* it is counted under the address the header names.
C36_AddressQuota ==
  config.enabled =>
    AdmittedUnder("ip1") + AdmittedUnder("ip2")
      <= config.rateLimit.maxTokenInjectionsPerIp

\* ------------------------------------------------------------- claims: admission
\* C37: under the default policy, every credential the injection test admits
\* and stores is reported valid by a status request for the same tenant
\* evaluated at the same instant: the admission test never admits a
\* credential that isTokenExpired classifies as expired.
C37_AdmittedIsValid ==
  [][( /\ storeOp'.op = "inject"
       /\ storeOp'.flag
       /\ now' = now
       /\ config.tokenValidation.minExpiryBufferMs = minExpiryBufferMs )
     => /\ getUserTokensResult(tokenStore', "u1") = storeOp'.tokens
        /\ TokenStatusBody(getUserTokensResult(tokenStore', "u1"), now).valid
        /\ ~isTokenExpired(Val(storeOp'.tokens), now)]_vars

\* ------------------------------------------------------------- claims: counted requests
\* the number of times the rate-limit stage ran for the request
RateStageRuns ==
  Cardinality({ i \in 1..Len(trace) : trace[i] = "rateLimitTokenInjection" })

\* C38 as stated: in enabled mode every request to a credential route that
\* carries a valid API key increments the address counter of its client
\* exactly once.
C38_EveryKeyedRequestCounted ==
  ( /\ pc = "done"
    /\ config.enabled
    /\ req.path \in TokenPaths
    /\ ExtractApiKey(req) = config.apiKey )
  => RateStageRuns = 1

\* C38 amended: in enabled mode every request to a credential route that
\* carries a valid API key and is not answered by an earlier stage (the
\* preflight answer 204, the origin check 403, the payload-size check 413)
\* increments the address counter of its client exactly once, in the
\* rate-limit stage, which answers 429 exactly when the incremented count
\* exceeds the limit; the route handler, whatever it answers, leaves the
\* counters as they are.
C38_AdmittedRequestCounted ==
  /\ []( ( /\ pc = "done"
           /\ config.enabled
           /\ req.path \in TokenPaths
           /\ ExtractApiKey(req) = config.apiKey )
         => /\ RateStageRuns <= 1
            /\ RateStageRuns = 1
                 <=> ~(Preflight(req) \/ OriginDenied(req) \/ Oversized(req))
            /\ HandlerRuns = 1 => res.statusCode \in { 200, 400, 404 } )
  /\ [][(config.enabled /\ Handled("rateLimitTokenInjection"))
         => LET ip == getClientIp(req)
                old == rateLimitStores.byIp[ip]
                count == IF IsSome(old)
                         THEN IF Val(old).resetTime < now THEN 1
                              ELSE Val(old).count + 1
                         ELSE 1
            IN  /\ IsSome(rateLimitStores'.byIp[ip])
                /\ Val(rateLimitStores'.byIp[ip]).count = count
                /\ \A other \in Ips \ { ip } :
                     rateLimitStores'.byIp[other] = rateLimitStores.byIp[other]
                /\ rateLimitStores'.byUser = rateLimitStores.byUser
                /\ (res'.headersSent /\ res'.statusCode = 429)
                     <=> count > config.rateLimit.maxTokenInjectionsPerIp
                /\ res'.headersSent => res'.statusCode = 429]_vars
  /\ [][(\E h \in Handlers : Handled(h))
         => rateLimitStores' = rateLimitStores]_vars

\* a keyed request answered 429 after an earlier one of the same address
\* was counted and left the store empty
C38_Witness ==
  /\ pc = "done"
  /\ config.enabled
  /\ req.path = "/api/tokens"
  /\ req.method = "POST"
  /\ ExtractApiKey(req) = config.apiKey
  /\ res.statusCode = 429
  /\ rl.prior = Some([ count |-> config.rateLimit.maxTokenInjectionsPerIp,
                       resetTime |-> now + config.rateLimit.windowMs ])
  /\ rl.count = config.rateLimit.maxTokenInjectionsPerIp + 1
  /\ checks = 2
  /\ \A u \in Users : tokenStore[u] = None


\* ---------------------------------------------------------- claims: reset
\* The number of sweeps of credential stores that are scheduled
ScheduledSweeps ==
  Len(orphanIntervals) + (IF IsSome(cleanupInterval) THEN 1 ELSE 0)

\* C39: at most one periodic sweep of the credential store is scheduled at
\* any time, and once resetConvexTokenProvider has run the sweep of the
\* provider it dropped is no longer scheduled; the provider that the next
\* getConvexTokenProvider returns holds no entries.
C39_OneSweepAfterReset ==
  /\ ScheduledSweeps <= 1
  /\ orphanIntervals = << >>
  /\ storeOp.op = "reset" => \A u \in Users : tokenStore[u] = None


\* ------------------------------------------------------ claims: last read
\* the store after a read of tenant u that found an entry: that entry with
\* lastAccessed = now, everything else as it was
TouchedOnly(u) ==
  IsSome(EntryOf(tokenStore, u)) =>
    tokenStore' =
      [ tokenStore EXCEPT ![u] = Some([ Val(@) EXCEPT !.lastAccessed = now ]) ]

\* C40: a read of a tenant's credential that finds it, by getUserTokens, by
\* hasValidTokens, by the status route or by the tool call of an MCP
\* request, sets the entry's lastAccessed to now and changes nothing else;
\* lastAccessed never decreases while the entry stays; and the sweep keeps
\* every entry whose lastAccessed is no more than the stale threshold ago,
\* expired or not.  So a tenant read within every stale threshold is never
\* removed by the sweep.
C40_ReadKeepsAlive ==
  /\ [][Get => TouchedOnly(storeOp'.user)]_vars
  /\ [][HasValidTokens => TouchedOnly(storeOp'.user)]_vars
  /\ [][TokenStatus => TouchedOnly("u1")]_vars
  /\ [][(McpRequest /\ res'.statusCode = 200 /\ config.enabled
           /\ IsSome(req.toolUserId))
          => TouchedOnly(Val(req.toolUserId))]_vars
  /\ [][\A u \in Users :
          IsSome(tokenStore[u]) /\ IsSome(tokenStore'[u])
            => Val(tokenStore'[u]).lastAccessed
                 >= Val(tokenStore[u]).lastAccessed]_vars
  /\ [][CleanupStaleTokens =>
          \A u \in Users :
            (/\ IsSome(tokenStore[u])
             /\ Val(tokenStore[u]).lastAccessed + STALE_TOKEN_THRESHOLD_MS
                  >= now)
              => tokenStore'[u] = tokenStore[u]]_vars

\* the sweep has just run, more than the stale threshold after tenant u1's
\* credential was stored; the credential has expired, but it was read
\* within the threshold and is still there, while tenant u2's is gone
C40_Witness ==
  /\ storeOp.op = "purge"
  /\ storeOp.flag
  /\ tokenStore["u2"] = None
  /\ IsSome(tokenStore["u1"])
  /\ Val(tokenStore["u1"]).lastUpdated + STALE_TOKEN_THRESHOLD_MS < now
  /\ Val(tokenStore["u1"]).lastAccessed + STALE_TOKEN_THRESHOLD_MS >= now
  /\ Val(tokenStore["u1"]).tokens.expiresAt.kind = "number"
  /\ Val(tokenStore["u1"]).tokens.expiresAt.twice <= 2 * now

\* ------------------------------------------------------------- claims: gate, continued
\* C11: in enabled mode every tool invocation for a tenant is counted in the
\* tenant-keyed rate counter: once a tool has run for tenant t, t has a
\* counter with count >= 1.
C11_ToolQuota ==
  (pc = "done" /\ config.enabled /\ IsSome(res.tool)) =>
    LET entry == rateLimitStores.byUser[Val(res.tool)]
    IN  IF IsSome(entry) THEN Val(entry).count >= 1 ELSE FALSE

\* C17 as stated: put rejects an expiresAt that is zero, negative or not an
\* integer: whatever the store holds, such a put throws and leaves it as it
\* is.
C17_PutRejectsNonPositive ==
  \A e \in { Num(0), Num(-1), Num2(3) } :
    LET tokens == [ BaseTokens EXCEPT !.expiresAt = e ]
    IN  /\ setUserTokensThrows(Str("u1"), tokens)
        /\ setUserTokens(tokenStore, Str("u1"), tokens, now) = tokenStore

\* C17 amended: put rejects an expiresAt that is 0, NaN or not a number and
\* accepts a negative or fractional one; the injection route, the only
\* caller of put, admits positive integers only, so every credential held
\* in the store has a positive-integer expiresAt.
C17_RouteExpiry ==
  /\ \A e \in { Num(0), NaN, Undefined, Str("5") } :
       setUserTokensThrows(Str("u1"), [ BaseTokens EXCEPT !.expiresAt = e ])
  /\ \A e \in { Num(-1), Num2(3) } :
       ~setUserTokensThrows(Str("u1"), [ BaseTokens EXCEPT !.expiresAt = e ])
  /\ \A u \in DOMAIN tokenStore :
       IsSome(tokenStore[u]) =>
         /\ IsInteger(Val(tokenStore[u]).tokens.expiresAt)
         /\ Val(tokenStore[u]).tokens.expiresAt.twice > 0

C17_Witness ==
  /\ pc = "done"
  /\ InTrace("handleInjectTokens")
  /\ res.statusCode = 200
  /\ IsSome(tokenStore["u1"])
  /\ Val(tokenStore["u1"]).tokens.expiresAt = Num(FarExpiry)


C13_Preflight ==
  /\ []((InFlight /\ config.enabled /\ req.method = "OPTIONS") =>
          /\ res.statusCode \in {0, 204}
          /\ pc \in {"corsMiddleware", "awaitMiddleware", "done"}
          /\ InTrace("corsMiddleware") =>
               /\ res.headersSent
               /\ res.statusCode = 204
               /\ trace = << "corsMiddleware" >>)
  /\ [][(InFlight /\ config.enabled /\ req.method = "OPTIONS") =>
          /\ rateLimitStores' = rateLimitStores
          /\ tokenStore' = tokenStore]_vars

C13_Witness ==
  /\ pc = "done"
  /\ config.enabled
  /\ req.method = "OPTIONS"
  /\ req.path = "/api/tokens/u1"
  /\ req.origin = Some("https://evil")
  /\ res.statusCode = 204
  /\ IsSome(tokenStore["u1"])
  /\ IsSome(rateLimitStores.byIp["ip1"])

\* C14: in disabled mode the origin, API-key and rate-limit stages pass
\* every request: no request is answered 401, 403 or 429 and no rate
\* counter is created or incremented, whatever requests are served.
C14_DisabledOpen ==
  ~config.enabled =>
    /\ res.statusCode \notin {401, 403, 429}
    /\ \A ip \in Ips : rateLimitStores.byIp[ip] = None
    /\ \A u \in Users : rateLimitStores.byUser[u] = None
    /\ checks = 0
    /\ pc = "done" => InTrace("securityHeaders")
    /\ (pc = "done" /\ req.path \in TokenPaths /\ ~Oversized(req)) =>
         /\ Len(trace) = 6
         /\ trace[4] = "apiKeyAuth"
         /\ trace[5] = "rateLimitTokenInjection"
         /\ trace[6] \in Handlers

C14_Witness ==
  /\ ~config.enabled
  /\ pc = "done"
  /\ req.method = "POST"
  /\ req.path = "/api/tokens"
  /\ req.origin = Some("https://evil")
  /\ req.xApiKey = Some(WrongKey)
  /\ req.authorization = None
  /\ res.statusCode = 200
  /\ IsSome(tokenStore["u1"])

====
